---- MODULE Spec2Model ----
(***************************************************************************)
(* Static-file segments: the segment header (src/types/segment.rs), the    *)
(* file-name format and parser, and the incremental copy of headers,       *)
(* transactions and receipts into static files                             *)
(* (src/static files/segments/*.rs).                                       *)
(***************************************************************************)
EXTENDS Integers, Sequences, FiniteSets, TLC

VARIABLES
    header,     \* the SegmentHeader under test (header state machine)
    op,         \* name of the last SegmentHeader method called on header
    arg,        \* its argument (prune's num), -1 when it takes none
    ret,        \* its return value (increment_block), -1 when it returns ()
    fname,      \* a file name: a sequence of characters
    fsrc,       \* what fname was built from
    parsed,     \* parse_filename(fname)
    fpc,        \* input: fsrc chosen; named: fname built; parsed: parsed set
    debug_assertions, \* TRUE in a debug build: debug_assert_eq! is compiled in
    db,         \* the read-only store snapshot (DatabaseProviderRO)
    sfile,      \* per segment, the static file behind its writer: header, rows
    run,        \* per segment, the copy_to_static_files call in progress
    prev,       \* per segment, the call before it, as it ended
    nruns,      \* per segment, the number of calls started
    active,     \* the segments the producer runs copy_to_static_files for
    bucket,     \* a block number and find_fixed_range of it
    sample,     \* a dataset_for_compression call: its arguments and its rows
    build,      \* a create_static_file_file call
    trail       \* the SegmentHeader methods called on header since it was made

hvars == <<header, op, arg, ret>>
fvars == <<fname, fsrc, parsed, fpc>>
cvars == <<debug_assertions, db, sfile, run, prev, nruns, active>>
jvars == <<bucket, sample, build, trail>>
vars == <<header, op, arg, ret, fname, fsrc, parsed, fpc,
          debug_assertions, db, sfile, run, prev, nruns, active,
          bucket, sample, build, trail>>

(***************************************************************************)
(* Bounds of the model.                                                    *)
(***************************************************************************)
\* length of the expected block ranges the header state machine is built with
BucketLen == 3
\* block numbers of the header state machine stay below this cap
MaxBlock == 7
\* transaction numbers of the header state machine stay below this cap
MaxTx == 4
\* largest argument given to prune
MaxPrune == 5
\* largest argument given to set_block_range and set_tx_range
MaxSet == 3
\* largest block number put into a file name
MaxNameBlock == 12
\* most tokens (pieces between '_') of a hand-built file name
MaxTokens == 6
\* find_fixed_range is applied to blocks of the buckets 0..MaxBucket
MaxBucket == 3
\* ... that lie at most MaxOffset blocks from either end of their bucket
MaxOffset == 6
\* the large store of create_static_file_file holds the headers of the blocks
\* 0..MaxJarBlock
MaxJarBlock == 999
\* dataset_for_compression is given range ends and row counts of at most
\* SampleSlack, and at most SampleSlack away from the cap of 1000 rows
SampleSlack == 2
\* the store holds blocks 0..MaxCopyBlock
MaxCopyBlock == 2
\* copy_to_static_files calls per segment
MaxRuns == 2
\* the calls of increment_block and increment_tx on a fresh header
MaxCalls == 5

(***************************************************************************)
(* StaticFileSegment, SegmentRangeInclusive, Option                        *)
(***************************************************************************)
Headers == "Headers"
Transactions == "Transactions"
Receipts == "Receipts"
StaticFileSegment == {Headers, Transactions, Receipts}

\* Option<SegmentRangeInclusive>: None, or Some(start..=end)
None == [some |-> FALSE, start |-> 0, end |-> 0]
SegmentRangeInclusive(s, e) == [some |-> TRUE, start |-> s, end |-> e]

(***************************************************************************)
(* SegmentHeader                                                           *)
(***************************************************************************)
SegmentHeader(expected_block_range, block_range, tx_range, segment) ==
    [expected_block_range |-> expected_block_range,
     block_range |-> block_range,
     tx_range |-> tx_range,
     segment |-> segment]

expected_block_start(h) == h.expected_block_range.start
expected_block_end(h) == h.expected_block_range.end

\* a plausible slip: a fresh block range starts at 0, as a fresh tx range does
increment_block_from_zero(h) ==
    IF h.block_range.some
    THEN [h |-> [h EXCEPT !.block_range.end = @ + 1],
          ret |-> h.block_range.end + 1]
    ELSE [h |-> [h EXCEPT !.block_range = SegmentRangeInclusive(0, 0)],
          ret |-> 0]

\* a plausible slip: the old end is returned instead of the new one
increment_block_returns_old(h) ==
    IF h.block_range.some
    THEN [h |-> [h EXCEPT !.block_range.end = @ + 1],
          ret |-> h.block_range.end]
    ELSE [h |-> [h EXCEPT !.block_range =
                    SegmentRangeInclusive(expected_block_start(h),
                                          expected_block_start(h))],
          ret |-> expected_block_start(h)]

\* a plausible slip: increment_block moves the start of a present range
increment_block_moves_start(h) ==
    IF h.block_range.some
    THEN [h |-> [h EXCEPT !.block_range.start = @ + 1],
          ret |-> h.block_range.start + 1]
    ELSE [h |-> [h EXCEPT !.block_range =
                    SegmentRangeInclusive(expected_block_start(h),
                                          expected_block_start(h))],
          ret |-> expected_block_start(h)]

\* increment_block(&mut self) -> BlockNumber: the header after the call and
\* the value returned
increment_block(h) ==
    IF h.block_range.some
    THEN [h |-> [h EXCEPT !.block_range.end = @ + 1],
          ret |-> h.block_range.end + 1]
    ELSE [h |-> [h EXCEPT !.block_range =
                    SegmentRangeInclusive(expected_block_start(h),
                                          expected_block_start(h))],
          ret |-> expected_block_start(h)]

\* a plausible slip: the Headers arm is not a no-op
increment_tx_all_segments(h) ==
    IF h.tx_range.some
    THEN [h EXCEPT !.tx_range.end = @ + 1]
    ELSE [h EXCEPT !.tx_range = SegmentRangeInclusive(0, 0)]

\* increment_tx(&mut self)
increment_tx(h) ==
    CASE h.segment = Headers -> h
      [] h.segment \in {Transactions, Receipts} ->
            IF h.tx_range.some
            THEN [h EXCEPT !.tx_range.end = @ + 1]
            ELSE [h EXCEPT !.tx_range = SegmentRangeInclusive(0, 0)]

\* u64::saturating_sub
saturating_sub(a, b) == IF b > a THEN 0 ELSE a - b

\* the arm of prune shared by both matches: Option<range> after removing num
prune_range(range, num) ==
    IF range.some
    THEN IF num > range.end
         THEN None
         ELSE [range EXCEPT !.end = saturating_sub(range.end, num)]
    ELSE range

\* a plausible slip: prune cuts the block range on every segment
prune_block_range_too(h, num) ==
    CASE h.segment = Headers ->
            [h EXCEPT !.block_range = prune_range(h.block_range, num)]
      [] h.segment \in {Transactions, Receipts} ->
            [h EXCEPT !.tx_range = prune_range(h.tx_range, num),
                      !.block_range = prune_range(h.block_range, num)]

\* prune(&mut self, num: u64)
prune(h, num) ==
    CASE h.segment = Headers ->
            [h EXCEPT !.block_range = prune_range(h.block_range, num)]
      [] h.segment \in {Transactions, Receipts} ->
            [h EXCEPT !.tx_range = prune_range(h.tx_range, num)]

\* a plausible slip: the expected range is overwritten with the block range
set_block_range_moves_expected(h, block_start, block_end) ==
    [h EXCEPT !.block_range = SegmentRangeInclusive(block_start, block_end),
              !.expected_block_range =
                  SegmentRangeInclusive(block_start, block_end)]

\* set_block_range(&mut self, block_start, block_end): both arms leave
\* Some(block_start..=block_end)
set_block_range(h, block_start, block_end) ==
    IF h.block_range.some
    THEN [h EXCEPT !.block_range.start = block_start,
                   !.block_range.end = block_end]
    ELSE [h EXCEPT !.block_range = SegmentRangeInclusive(block_start, block_end)]

\* set_tx_range(&mut self, tx_start, tx_end)
set_tx_range(h, tx_start, tx_end) ==
    IF h.tx_range.some
    THEN [h EXCEPT !.tx_range.start = tx_start, !.tx_range.end = tx_end]
    ELSE [h EXCEPT !.tx_range = SegmentRangeInclusive(tx_start, tx_end)]

\* tx_len() and block_len(), None counted as 0: (end + 1) - start, computed in
\* the integers
range_length(range) == IF range.some THEN (range.end + 1) - range.start ELSE 0
tx_len(h) == range_length(h.tx_range)
block_len(h) == range_length(h.block_range)

(***************************************************************************)
(* File names: StaticFileSegment::filename and ::parse_filename.  A name   *)
(* is a sequence of one-character strings.                                 *)
(***************************************************************************)
Digits == <<"0", "1", "2", "3", "4", "5", "6", "7", "8", "9">>

\* the digit a character stands for, -1 when it is no decimal digit
digit_value(c) ==
    IF \E d \in 1..10 : Digits[d] = c
    THEN (CHOOSE d \in 1..10 : Digits[d] = c) - 1
    ELSE -1

\* Display of a u64: decimal, no sign, no leading zeros
RECURSIVE to_string(_)
to_string(n) ==
    IF n < 10 THEN <<Digits[n + 1]>>
    ELSE to_string(n \div 10) \o <<Digits[(n % 10) + 1]>>

\* as_str / AsRefStr / EnumString: the serialized name of a segment
as_str(segment) ==
    CASE segment = Headers -> <<"h", "e", "a", "d", "e", "r", "s">>
      [] segment = Transactions ->
            <<"t", "r", "a", "n", "s", "a", "c", "t", "i", "o", "n", "s">>
      [] segment = Receipts -> <<"r", "e", "c", "e", "i", "p", "t", "s">>

\* filename(&self, block_range):
\* format!("static_file_{}_{}_{}", self.as_ref(), start, end)
filename(segment, block_range) ==
    <<"s", "t", "a", "t", "i", "c", "_", "f", "i", "l", "e", "_">>
    \o as_str(segment) \o <<"_">> \o to_string(block_range.start)
    \o <<"_">> \o to_string(block_range.end)

\* name.split('_'): the pieces between the underscores, in order; a name
\* without underscore (the empty name too) is one piece
RECURSIVE split(_)
split(name) ==
    IF \E i \in 1..Len(name) : name[i] = "_"
    THEN LET i == CHOOSE k \in 1..Len(name) :
                     /\ name[k] = "_"
                     /\ \A j \in 1..(k - 1) : name[j] # "_"
         IN  <<SubSeq(name, 1, i - 1)>> \o split(SubSeq(name, i + 1, Len(name)))
    ELSE <<name>>

\* Self::from_str(token).ok(): Option<StaticFileSegment>
from_str(token) ==
    IF \E s \in StaticFileSegment : as_str(s) = token
    THEN [some |-> TRUE, segment |-> CHOOSE s \in StaticFileSegment : as_str(s) = token]
    ELSE [some |-> FALSE, segment |-> Headers]

\* the value of a non-empty run of decimal digits
RECURSIVE digits_value(_)
digits_value(ds) ==
    IF Len(ds) = 0 THEN 0
    ELSE 10 * digits_value(SubSeq(ds, 1, Len(ds) - 1)) + digit_value(ds[Len(ds)])

\* token.parse::<u64>().ok(): an optional '+', then one or more decimal digits
parse_u64(token) ==
    LET ds == IF Len(token) > 0 /\ token[1] = "+"
              THEN SubSeq(token, 2, Len(token)) ELSE token
    IN  IF Len(ds) > 0 /\ \A i \in 1..Len(ds) : digit_value(ds[i]) >= 0
        THEN [some |-> TRUE, value |-> digits_value(ds)]
        ELSE [some |-> FALSE, value |-> 0]

\* Option<(StaticFileSegment, SegmentRangeInclusive)>
NoFile == [some |-> FALSE, segment |-> Headers, range |-> None]
SomeFile(segment, range) == [some |-> TRUE, segment |-> segment, range |-> range]

\* a plausible slip: a one-block range (start = end) is rejected
parse_filename_strict(name) ==
    LET parts == split(name) IN
    IF ~(/\ Len(parts) >= 1 /\ parts[1] = <<"s", "t", "a", "t", "i", "c">>
         /\ Len(parts) >= 2 /\ parts[2] = <<"f", "i", "l", "e">>)
    THEN NoFile
    ELSE IF Len(parts) < 3 \/ ~from_str(parts[3]).some THEN NoFile
    ELSE IF Len(parts) < 4 \/ ~parse_u64(parts[4]).some THEN NoFile
    ELSE IF Len(parts) < 5 \/ ~parse_u64(parts[5]).some THEN NoFile
    ELSE IF parse_u64(parts[4]).value >= parse_u64(parts[5]).value THEN NoFile
    ELSE SomeFile(from_str(parts[3]).segment,
                  SegmentRangeInclusive(parse_u64(parts[4]).value,
                                        parse_u64(parts[5]).value))

\* a plausible slip: the start > end test is left out
parse_filename_unordered(name) ==
    LET parts == split(name) IN
    IF ~(/\ Len(parts) >= 1 /\ parts[1] = <<"s", "t", "a", "t", "i", "c">>
         /\ Len(parts) >= 2 /\ parts[2] = <<"f", "i", "l", "e">>)
    THEN NoFile
    ELSE IF Len(parts) < 3 \/ ~from_str(parts[3]).some THEN NoFile
    ELSE IF Len(parts) < 4 \/ ~parse_u64(parts[4]).some THEN NoFile
    ELSE IF Len(parts) < 5 \/ ~parse_u64(parts[5]).some THEN NoFile
    ELSE SomeFile(from_str(parts[3]).segment,
                  SegmentRangeInclusive(parse_u64(parts[4]).value,
                                        parse_u64(parts[5]).value))

\* a plausible slip: a name with pieces after the range is rejected
parse_filename_whole_name(name) ==
    LET parts == split(name) IN
    IF ~(/\ Len(parts) >= 1 /\ parts[1] = <<"s", "t", "a", "t", "i", "c">>
         /\ Len(parts) >= 2 /\ parts[2] = <<"f", "i", "l", "e">>)
    THEN NoFile
    ELSE IF Len(parts) < 3 \/ ~from_str(parts[3]).some THEN NoFile
    ELSE IF Len(parts) < 4 \/ ~parse_u64(parts[4]).some THEN NoFile
    ELSE IF Len(parts) < 5 \/ ~parse_u64(parts[5]).some THEN NoFile
    ELSE IF parse_u64(parts[4]).value > parse_u64(parts[5]).value THEN NoFile
    ELSE IF Len(parts) > 5 THEN NoFile
    ELSE SomeFile(from_str(parts[3]).segment,
                  SegmentRangeInclusive(parse_u64(parts[4]).value,
                                        parse_u64(parts[5]).value))

\* parse_filename(name): parts.next() is None once the pieces are used up
parse_filename(name) ==
    LET parts == split(name) IN
    IF ~(/\ Len(parts) >= 1 /\ parts[1] = <<"s", "t", "a", "t", "i", "c">>
         /\ Len(parts) >= 2 /\ parts[2] = <<"f", "i", "l", "e">>)
    THEN NoFile
    ELSE IF Len(parts) < 3 \/ ~from_str(parts[3]).some THEN NoFile
    ELSE IF Len(parts) < 4 \/ ~parse_u64(parts[4]).some THEN NoFile
    ELSE IF Len(parts) < 5 \/ ~parse_u64(parts[5]).some THEN NoFile
    ELSE IF parse_u64(parts[4]).value > parse_u64(parts[5]).value THEN NoFile
    ELSE SomeFile(from_str(parts[3]).segment,
                  SegmentRangeInclusive(parse_u64(parts[4]).value,
                                        parse_u64(parts[5]).value))

\* what a name was built from: nothing yet, filename(segment, [start, end]),
\* or hand-picked tokens joined by '_'
NoSource == [kind |-> "none", segment |-> Headers, start |-> 0, end |-> 0,
             tokens |-> <<>>]

(***************************************************************************)
(* The store snapshot, the static file behind a writer, and a              *)
(* copy_to_static_files call.                                              *)
(***************************************************************************)
BLOCKS_PER_STATIC_FILE == 500000

\* a plausible slip: the end of the bucket is taken exclusive
find_fixed_range_exclusive_end(block) ==
    LET start == (block \div BLOCKS_PER_STATIC_FILE) * BLOCKS_PER_STATIC_FILE
    IN  SegmentRangeInclusive(start, start + BLOCKS_PER_STATIC_FILE)

\* find_fixed_range(block): the bucket that owns the block
find_fixed_range(block) ==
    LET start == (block \div BLOCKS_PER_STATIC_FILE) * BLOCKS_PER_STATIC_FILE
    IN  SegmentRangeInclusive(start, start + BLOCKS_PER_STATIC_FILE - 1)

Blocks == 0..MaxCopyBlock

\* the elements of a finite set of numbers in ascending order
RECURSIVE SortedSeq(_)
SortedSeq(S) ==
    IF S = {} THEN <<>>
    ELSE LET m == CHOOSE x \in S : \A y \in S : x <= y
         IN  <<m>> \o SortedSeq(S \ {m})

\* the elements of a finite set of numbers in descending order
RECURSIVE SortedSeqDescending(_)
SortedSeqDescending(S) ==
    IF S = {} THEN <<>>
    ELSE LET m == CHOOSE x \in S : \A y \in S : x >= y
         IN  <<m>> \o SortedSeqDescending(S \ {m})

\* a plausible slip: the range is walked from its last key to its first
walk_range_descending(table, lo, hi) ==
    SortedSeqDescending({k \in table : lo <= k /\ k <= hi})

\* cursor.walk_range(lo..=hi): the keys the table holds in the range, ascending
walk_range(table, lo, hi) == SortedSeq({k \in table : lo <= k /\ k <= hi})

\* provider.block_body_indices(block): Option<StoredBlockBodyIndices>
block_body_indices(d, block) ==
    IF block \in d.body_indices
    THEN [some |-> TRUE, first_tx_num |-> d.layout[block].first_tx_num,
          tx_count |-> d.layout[block].tx_count]
    ELSE [some |-> FALSE, first_tx_num |-> 0, tx_count |-> 0]

\* a plausible slip: the range of the block's transactions is taken inclusive
\* of first_tx_num + tx_count
tx_num_range_inclusive(indices) ==
    [start |-> indices.first_tx_num,
     end |-> indices.first_tx_num + indices.tx_count]

\* StoredBlockBodyIndices::tx_num_range(): first_tx_num..first_tx_num + tx_count
tx_num_range(indices) ==
    [start |-> indices.first_tx_num,
     end |-> indices.first_tx_num + indices.tx_count - 1]

\* the table a transaction-indexed segment copies from
SegmentTable(d, segment) ==
    IF segment = Transactions THEN d.transactions ELSE d.receipts

\* a row of a static file: for Headers the block numbers of the header, the
\* total difficulty and the canonical hash put together; for Transactions and
\* Receipts the transaction number, three times
Row(key, td, hash) == [key |-> key, td |-> td, hash |-> hash]

\* the file of a bucket nothing was written to yet
NewFile(segment, block) ==
    [header |-> SegmentHeader(find_fixed_range(block), None, None, segment),
     rows |-> <<>>]

\* no writer
NoWriter == [segment |-> "none", bucket |-> None]

\* a plausible slip: every call asks for the writer of the Headers segment
get_writer_of_headers(block, segment) ==
    [segment |-> Headers, bucket |-> find_fixed_range(block)]

\* static_file_provider.get_writer(block, segment): the writer of the file of
\* the segment's bucket that owns the block
get_writer(block, segment) ==
    [segment |-> segment, bucket |-> find_fixed_range(block)]

\* writer.append_header(header, td, hash): appends the row, advances the block
\* counter of its header and returns the block number
append_header(f, row) ==
    [file |-> [f EXCEPT !.header = increment_block(f.header).h,
                        !.rows = Append(f.rows, row)],
     block |-> increment_block(f.header).ret]

\* writer.increment_block(segment, block): advances the block counter of its
\* header and returns the block number
writer_increment_block(f) ==
    [file |-> [f EXCEPT !.header = increment_block(f.header).h],
     block |-> increment_block(f.header).ret]

\* writer.append_transaction(tx_number, tx) and one row of
\* writer.append_receipts(..): appends the row and counts it in the header
append_transaction(f, tx_number) ==
    [f EXCEPT !.header = increment_tx(f.header),
              !.rows = Append(f.rows, Row(tx_number, tx_number, tx_number))]

\* the keys of the table between lo and hi, from the largest to the smallest
RECURSIVE keys_descending(_, _, _)
keys_descending(table, lo, hi) ==
    IF lo > hi THEN <<>>
    ELSE IF lo = hi THEN (IF lo \in table THEN <<lo>> ELSE <<>>)
    ELSE LET mid == (lo + hi) \div 2
         IN  keys_descending(table, mid + 1, hi) \o keys_descending(table, lo, mid)

\* cursor.walk_back(Some(key)): the walker goes from the key toward the
\* first key of the table
walk_back(table, key) == keys_descending(table, 0, key)

\* Iterator::take(n)
take(rows, n) == SubSeq(rows, 1, IF n <= Len(rows) THEN n ELSE Len(rows))

\* usize::min
min(a, b) == IF a <= b THEN a ELSE b

\* ProviderResult<()> of a call, and a panic
NoResult == [kind |-> "none", block |-> -1]
Ok == [kind |-> "Ok", block |-> -1]
BlockBodyIndicesNotFound(block) ==
    [kind |-> "BlockBodyIndicesNotFound", block |-> block]
IoError == [kind |-> "IoError", block |-> -1]
Panic == [kind |-> "panic", block |-> -1]

\* a copy_to_static_files call: where it is, its block_range, its writer, the three
\* walkers and the step of the zip (Headers), the block of the for loop and
\* what is left of its walker (Transactions, Receipts), how it ended, and the
\* number of rows and the committed block range the file held when it started
IdleRun ==
    [pc |-> "idle", start |-> 0, end |-> 0, writer |-> NoWriter,
     hw |-> <<>>, tw |-> <<>>, cw |-> <<>>, i |-> 0,
     block |-> 0, pending |-> <<>>,
     result |-> NoResult, rows0 |-> 0, block_range0 |-> None]

EmptyDb ==
    [headers |-> {}, tds |-> {}, canonical |-> {}, body_indices |-> {},
     layout |-> [b \in Blocks |-> [first_tx_num |-> 0, tx_count |-> 0]],
     transactions |-> {}, receipts |-> {}]

CopyIdle ==
    /\ debug_assertions = FALSE
    /\ db = EmptyDb
    /\ sfile = [s \in StaticFileSegment |-> NewFile(s, 0)]
    /\ run = [s \in StaticFileSegment |-> IdleRun]
    /\ prev = [s \in StaticFileSegment |-> IdleRun]
    /\ nruns = [s \in StaticFileSegment |-> 0]
    /\ active = {}

\* most rows of a dictionary-training sample
SAMPLE_ROWS == 1000

\* a plausible slip: the sample is bounded by range_len only
dataset_for_compression_uncapped(table, range, range_len, outcome) ==
    IF outcome = "cursor_err" THEN [result |-> IoError, rows |-> <<>>]
    ELSE IF outcome = "row_err" /\ take(walk_back(table, range.end), range_len) # <<>>
    THEN [result |-> Panic, rows |-> <<>>]
    ELSE [result |-> Ok,
          rows |-> take(walk_back(table, range.end), range_len)]

\* dataset_for_compression(provider, range, range_len) over the keys of table
\* T: the result and the rows of the sample
dataset_for_compression(table, range, range_len, outcome) ==
    LET rows == take(walk_back(table, range.end), min(range_len, SAMPLE_ROWS))
    IN  \* cursor_read()?, walk_back(..)?
        IF outcome = "cursor_err" THEN [result |-> IoError, rows |-> <<>>]
        \* row.map(..).expect("should exist") on a row that came back as Err
        ELSE IF outcome = "row_err" /\ rows # <<>>
        THEN [result |-> Panic, rows |-> <<>>]
        ELSE [result |-> Ok, rows |-> rows]

(***************************************************************************)
(* SegmentConfig, NippyJar, prepare_jar                                    *)
(***************************************************************************)
Compression == {"Lz4", "Zstd", "ZstdWithDictionary", "Uncompressed"}

WithoutFilters == [has |-> FALSE, inclusion_filter |-> "none", phf |-> "none"]
WithFilters(inclusion_filter, phf) ==
    [has |-> TRUE, inclusion_filter |-> inclusion_filter, phf |-> phf]
Filters ==
    {WithoutFilters} \cup {WithFilters("Cuckoo", phf) : phf \in {"Fmph", "GoFmph"}}

\* Filters::has_filters
has_filters(filters) == filters.has

SegmentConfig == [compression : Compression, filters : Filters]

\* RangeInclusive::count
range_count(range) == IF range.start <= range.end THEN range.end - range.start + 1 ELSE 0

\* const COLUMNS: 3 for Headers, 1 for Transactions and Receipts
COLUMNS(segment) == IF segment = Headers THEN 3 ELSE 1

\* the table behind column i of a segment
ColumnTable(d, segment, i) ==
    CASE segment = Headers /\ i = 1 -> d.headers
      [] segment = Headers /\ i = 2 -> d.tds
      [] segment = Headers /\ i = 3 -> d.canonical
      [] segment = Transactions -> d.transactions
      [] segment = Receipts -> d.receipts

\* provider.transaction_range_by_block_range(block_range): from the first
\* transaction of the first block to the last transaction of the last block
transaction_range_by_block_range(d, block_range) ==
    LET from == block_body_indices(d, block_range.start)
        to == block_body_indices(d, block_range.end)
    IN  IF ~from.some
        THEN [result |-> BlockBodyIndicesNotFound(block_range.start),
              range |-> [start |-> 0, end |-> 0]]
        ELSE IF ~to.some
        THEN [result |-> BlockBodyIndicesNotFound(block_range.end),
              range |-> [start |-> 0, end |-> 0]]
        ELSE [result |-> Ok,
              range |-> [start |-> from.first_tx_num,
                         end |-> saturating_sub(to.first_tx_num + to.tx_count, 1)]]

\* NippyJar::new(columns, path, user_header)
NippyJar(columns, path, user_header) ==
    [columns |-> columns, path |-> path, header |-> user_header,
     compression |-> "none", dictionary |-> FALSE,
     filter |-> "none", filter_rows |-> 0, phf |-> "none"]

\* no jar
NoJar ==
    [columns |-> 0, path |-> <<>>,
     header |-> SegmentHeader(None, None, None, Headers),
     compression |-> "none", dictionary |-> FALSE,
     filter |-> "none", filter_rows |-> 0, phf |-> "none"]

\* the closure handed to prepare_jar: dataset_for_compression of every
\* column, each followed by ?; calls counts the calls made
RECURSIVE prepare_compression(_, _, _, _, _, _)
prepare_compression(d, segment, range, range_len, outcome, i) ==
    IF i > COLUMNS(segment) THEN [result |-> Ok, samples |-> <<>>, calls |-> 0]
    ELSE LET s == dataset_for_compression(ColumnTable(d, segment, i), range,
                                          range_len, outcome)
             rest == prepare_compression(d, segment, range, range_len, outcome, i + 1)
         IN  IF s.result # Ok
             THEN [result |-> s.result, samples |-> <<>>, calls |-> 1]
             ELSE [result |-> rest.result,
                   samples |-> IF rest.result = Ok THEN <<s.rows>> \o rest.samples
                               ELSE <<>>,
                   calls |-> 1 + rest.calls]

\* the jar after the match on segment_config.filters
with_filters(jar, filters, total_rows) ==
    IF filters.has
    THEN [jar EXCEPT !.filter = filters.inclusion_filter,
                     !.filter_rows = total_rows,
                     !.phf = filters.phf]
    ELSE jar

\* a plausible slip: the dataset is prepared before the match on the
\* compression
prepare_jar_always_samples(d, segment, segment_config, block_range, total_rows, captured, outcome) ==
    LET resolved == transaction_range_by_block_range(d, block_range)
        tx_range == IF segment = Headers THEN None
                    ELSE SegmentRangeInclusive(resolved.range.start,
                                               resolved.range.end)
        range == SegmentRangeInclusive(block_range.start, block_range.end)
        jar == NippyJar(COLUMNS(segment),
                        filename(segment, find_fixed_range(block_range.end)),
                        SegmentHeader(range, range, tx_range, segment))
        dataset == prepare_compression(d, segment, captured.range,
                                       captured.range_len, outcome, 1)
        failed(result, calls) ==
            [result |-> result, jar |-> NoJar, samples |-> <<>>,
             sample_calls |-> calls]
    IN  IF segment # Headers /\ outcome = "resolve_err" THEN failed(IoError, 0)
        ELSE IF segment # Headers /\ resolved.result # Ok
        THEN failed(resolved.result, 0)
        ELSE IF dataset.result # Ok THEN failed(dataset.result, dataset.calls)
        ELSE IF segment_config.compression = "ZstdWithDictionary"
                /\ outcome = "train_err"
        THEN failed(IoError, dataset.calls)
        ELSE [result |-> Ok,
              jar |-> with_filters(
                  CASE segment_config.compression = "Lz4" ->
                          [jar EXCEPT !.compression = "lz4"]
                    [] segment_config.compression = "Zstd" ->
                          [jar EXCEPT !.compression = "zstd"]
                    [] segment_config.compression = "ZstdWithDictionary" ->
                          [jar EXCEPT !.compression = "zstd", !.dictionary = TRUE]
                    [] segment_config.compression = "Uncompressed" -> jar,
                  segment_config.filters, total_rows),
              samples |-> dataset.samples,
              sample_calls |-> dataset.calls]

\* a plausible slip: the header is created with its expected range only, as
\* the header of an empty file
prepare_jar_expected_only(d, segment, segment_config, block_range, total_rows, captured, outcome) ==
    LET resolved == transaction_range_by_block_range(d, block_range)
        range == SegmentRangeInclusive(block_range.start, block_range.end)
        jar == NippyJar(COLUMNS(segment),
                        filename(segment, find_fixed_range(block_range.end)),
                        SegmentHeader(range, None, None, segment))
        dataset == prepare_compression(d, segment, captured.range,
                                       captured.range_len, outcome, 1)
        failed(result, calls) ==
            [result |-> result, jar |-> NoJar, samples |-> <<>>,
             sample_calls |-> calls]
    IN  IF segment # Headers /\ outcome = "resolve_err" THEN failed(IoError, 0)
        ELSE IF segment # Headers /\ resolved.result # Ok
        THEN failed(resolved.result, 0)
        ELSE IF segment_config.compression = "ZstdWithDictionary"
                /\ dataset.result # Ok
        THEN failed(dataset.result, dataset.calls)
        ELSE IF segment_config.compression = "ZstdWithDictionary"
                /\ outcome = "train_err"
        THEN failed(IoError, dataset.calls)
        ELSE [result |-> Ok,
              jar |-> with_filters(
                  CASE segment_config.compression = "Lz4" ->
                          [jar EXCEPT !.compression = "lz4"]
                    [] segment_config.compression = "Zstd" ->
                          [jar EXCEPT !.compression = "zstd"]
                    [] segment_config.compression = "ZstdWithDictionary" ->
                          [jar EXCEPT !.compression = "zstd", !.dictionary = TRUE]
                    [] segment_config.compression = "Uncompressed" -> jar,
                  segment_config.filters, total_rows),
              samples |-> IF segment_config.compression = "ZstdWithDictionary"
                          THEN dataset.samples ELSE <<>>,
              sample_calls |-> IF segment_config.compression = "ZstdWithDictionary"
                               THEN dataset.calls ELSE 0]

\* prepare_jar(provider, directory, segment, segment_config, block_range,
\* total_rows, prepare_compression): the result, the jar, and the samples and
\* the number of dataset_for_compression calls of the closure.  captured is
\* the range and the row count the closure was built with.
prepare_jar(d, segment, segment_config, block_range, total_rows, captured, outcome) ==
    LET resolved == transaction_range_by_block_range(d, block_range)
        \* let tx_range = match segment { .. }
        tx_range == IF segment = Headers THEN None
                    ELSE SegmentRangeInclusive(resolved.range.start,
                                               resolved.range.end)
        range == SegmentRangeInclusive(block_range.start, block_range.end)
        \* NippyJar::new(COLUMNS, directory/filename, SegmentHeader::new(..))
        jar == NippyJar(COLUMNS(segment),
                        filename(segment, find_fixed_range(block_range.end)),
                        SegmentHeader(range, range, tx_range, segment))
        dataset == prepare_compression(d, segment, captured.range,
                                       captured.range_len, outcome, 1)
        failed(result, calls) ==
            [result |-> result, jar |-> NoJar, samples |-> <<>>,
             sample_calls |-> calls]
    IN  \* provider.transaction_range_by_block_range(block_range.clone())?
        IF segment # Headers /\ outcome = "resolve_err" THEN failed(IoError, 0)
        ELSE IF segment # Headers /\ resolved.result # Ok
        THEN failed(resolved.result, 0)
        \* Compression::ZstdWithDictionary => prepare_compression()?
        ELSE IF segment_config.compression = "ZstdWithDictionary"
                /\ dataset.result # Ok
        THEN failed(dataset.result, dataset.calls)
        \* nippy_jar.prepare_compression(dataset.to_vec()).map_err(..)?
        ELSE IF segment_config.compression = "ZstdWithDictionary"
                /\ outcome = "train_err"
        THEN failed(IoError, dataset.calls)
        ELSE [result |-> Ok,
              jar |-> with_filters(
                  CASE segment_config.compression = "Lz4" ->
                          [jar EXCEPT !.compression = "lz4"]
                    [] segment_config.compression = "Zstd" ->
                          [jar EXCEPT !.compression = "zstd"]
                    [] segment_config.compression = "ZstdWithDictionary" ->
                          [jar EXCEPT !.compression = "zstd", !.dictionary = TRUE]
                    [] segment_config.compression = "Uncompressed" -> jar,
                  segment_config.filters, total_rows),
              samples |-> IF segment_config.compression = "ZstdWithDictionary"
                          THEN dataset.samples ELSE <<>>,
              sample_calls |-> IF segment_config.compression = "ZstdWithDictionary"
                               THEN dataset.calls ELSE 0]

\* no find_fixed_range call, no dataset_for_compression call and no
\* create_static_file_file call
NoBucket == [pc |-> "idle", block |-> 0, range |-> None]
NoSample == [pc |-> "idle", table |-> {}, start |-> 0, end |-> 0,
             range_len |-> 0, result |-> NoResult, rows |-> <<>>]
NoBuild ==
    [pc |-> "idle", segment |-> Headers,
     config |-> [compression |-> "Uncompressed", filters |-> WithoutFilters],
     start |-> 0, end |-> 0, tx_range |-> None, range_len |-> 0,
     jar |-> NoJar, samples |-> <<>>, sample_calls |-> 0,
     keys_read |-> FALSE, keys |-> <<>>, file |-> <<>>, result |-> NoResult]

JarIdle ==
    /\ bucket = NoBucket
    /\ sample = NoSample
    /\ build = NoBuild
    /\ trail = <<>>

(***************************************************************************)
(* The header state machine: a header built by SegmentHeader::new, then    *)
(* any sequence of increment_block, increment_tx and prune.                *)
(***************************************************************************)
ExpectedRanges ==
    {SegmentRangeInclusive(0, BucketLen - 1),
     SegmentRangeInclusive(BucketLen, 2 * BucketLen - 1)}

\* the well-formed ranges inside [lo, hi]
RangesWithin(lo, hi) ==
    UNION {{SegmentRangeInclusive(s, e) : e \in s..hi} : s \in lo..hi}

InitHeader ==
    /\ \E seg \in StaticFileSegment, exp \in ExpectedRanges :
         \E br \in {None} \cup RangesWithin(exp.start, exp.end) :
           \E tr \in IF seg = Headers THEN {None}
                     ELSE {None} \cup RangesWithin(0, 1) :
              header = SegmentHeader(exp, br, tr, seg)
    /\ op = "new"
    /\ arg = -1
    /\ ret = -1
    /\ fname = <<>>
    /\ fsrc = NoSource
    /\ parsed = NoFile
    /\ fpc = "input"
    /\ CopyIdle
    /\ JarIdle

IncrementBlock ==
    /\ header.block_range.some => header.block_range.end < MaxBlock
    /\ header' = increment_block(header).h
    /\ ret' = increment_block(header).ret
    /\ op' = "increment_block"
    /\ arg' = -1
    /\ UNCHANGED <<fvars, cvars, jvars>>

IncrementTx ==
    /\ header.tx_range.some => header.tx_range.end < MaxTx
    /\ header' = increment_tx(header)
    /\ op' = "increment_tx"
    /\ arg' = -1
    /\ ret' = -1
    /\ UNCHANGED <<fvars, cvars, jvars>>

Prune ==
    \E num \in 0..MaxPrune :
       /\ header' = prune(header, num)
       /\ op' = "prune"
       /\ arg' = num
       /\ ret' = -1
       /\ UNCHANGED <<fvars, cvars, jvars>>

NextHeader == IncrementBlock \/ IncrementTx \/ Prune

SpecHeader == InitHeader /\ [][NextHeader]_vars

(***************************************************************************)
(* Properties of the header state machine.                                 *)
(***************************************************************************)
Contained(h) ==
    h.block_range.some =>
        /\ expected_block_start(h) <= h.block_range.start
        /\ h.block_range.end <= expected_block_end(h)

\* the range prune works on: the block range of a Headers header, the tx
\* range of a Transactions or Receipts header
PrunedRange(h) == IF h.segment = Headers THEN h.block_range ELSE h.tx_range

\* C1 (as stated): in every state reached from a fresh header by
\* increment_block, increment_tx and prune, a present committed block range
\* lies inside the expected range.
C1_Containment == Contained(header)

\* C1 (amended): every increment_tx, every prune, and every increment_block
\* called while the block range is absent or ends below expected_end takes a
\* header whose block range lies inside the expected range to one whose block
\* range lies inside it; only increment_block at or past expected_end leaves it.
C1_ContainmentWithinBucket ==
    [][(/\ Contained(header)
        /\ ~(/\ op' = "increment_block"
             /\ header.block_range.some
             /\ header.block_range.end >= expected_block_end(header)))
       => Contained(header')]_vars

\* a bucket that does not start at 0, filled to its last block by increment_block
C1_Witness ==
    /\ op = "increment_block"
    /\ header.block_range.some
    /\ expected_block_start(header) > 0
    /\ header.block_range.start = expected_block_start(header)
    /\ header.block_range.end = expected_block_end(header)

\* C2: prune(n) on a present range [s,e] leaves it absent when n >= e-s+1 and
\* leaves [s, e-n] otherwise, for every start s.
C2_PruneSaturation ==
    [][(/\ op' = "prune"
        /\ PrunedRange(header).some
        /\ PrunedRange(header).start <= PrunedRange(header).end)
       => LET r == PrunedRange(header)
              n == arg'
          IN  IF n >= r.end - r.start + 1
              THEN ~PrunedRange(header').some
              ELSE PrunedRange(header') =
                      SegmentRangeInclusive(r.start, r.end - n)]_vars

\* C7: increment_block turns a present [s,e] into [s,e+1] and returns e+1; it
\* turns an absent range into [expected_start, expected_start] and returns
\* expected_start.
C7_IncrementBlock ==
    [][op' = "increment_block"
       => IF header.block_range.some
          THEN /\ header'.block_range =
                     SegmentRangeInclusive(header.block_range.start,
                                           header.block_range.end + 1)
               /\ ret' = header.block_range.end + 1
          ELSE /\ header'.block_range =
                     SegmentRangeInclusive(expected_block_start(header),
                                           expected_block_start(header))
               /\ ret' = expected_block_start(header)]_vars

\* increment_block has extended a present range and returned its new end
C7_Witness ==
    /\ op = "increment_block"
    /\ header.block_range.some
    /\ header.block_range.end > header.block_range.start
    /\ ret = header.block_range.end

\* C8: increment_tx changes nothing on a Headers header; on a Transactions or
\* Receipts header a present tx range [s,e] becomes [s,e+1] and an absent one
\* becomes [0,0].
C8_IncrementTx ==
    [][op' = "increment_tx"
       => IF header.segment = Headers
          THEN header' = header
          ELSE header'.tx_range =
                  IF header.tx_range.some
                  THEN SegmentRangeInclusive(header.tx_range.start,
                                             header.tx_range.end + 1)
                  ELSE SegmentRangeInclusive(0, 0)]_vars

\* increment_tx has extended the tx range of a Transactions or Receipts header
C8_Witness ==
    /\ op = "increment_tx"
    /\ header.segment \in {Transactions, Receipts}
    /\ header.tx_range.some
    /\ header.tx_range.end > header.tx_range.start

SetBlockRange ==
    \E block_start \in 0..MaxSet, block_end \in 0..MaxSet :
       /\ header' = set_block_range(header, block_start, block_end)
       /\ op' = "set_block_range"
       /\ arg' = block_start
       /\ ret' = -1
       /\ UNCHANGED <<fvars, cvars, jvars>>

SetTxRange ==
    \E tx_start \in 0..MaxSet, tx_end \in 0..MaxSet :
       /\ header' = set_tx_range(header, tx_start, tx_end)
       /\ op' = "set_tx_range"
       /\ arg' = tx_start
       /\ ret' = -1
       /\ UNCHANGED <<fvars, cvars, jvars>>

NextHeaderAll ==
    IncrementBlock \/ IncrementTx \/ Prune \/ SetBlockRange \/ SetTxRange

SpecHeaderAll == InitHeader /\ [][NextHeaderAll]_vars

\* C14: increment_block, increment_tx, prune, set_block_range and
\* set_tx_range leave the expected range and the segment of the header as
\* they were at creation.
C14_ExpectedRangeImmutable ==
    [][/\ header'.expected_block_range = header.expected_block_range
       /\ header'.segment = header.segment]_vars

\* set_block_range has put the block range outside the expected range
C14_Witness ==
    /\ op = "set_block_range"
    /\ header.block_range.some
    /\ header.block_range.start > expected_block_end(header)

(***************************************************************************)
(* File names: every name filename builds, and names put together from     *)
(* tokens whose meaning is known, each handed to parse_filename.           *)
(***************************************************************************)
\* a token: its characters, what it is (static, file, segment, number or
\* other), and the segment or the number it denotes
Token(text, kind, segment, value) ==
    [text |-> text, kind |-> kind, segment |-> segment, value |-> value]

StaticTokens == {Token(<<"s", "t", "a", "t", "i", "c">>, "static", Headers, 0)}
FileTokens == {Token(<<"f", "i", "l", "e">>, "file", Headers, 0)}
SegmentTokens == {Token(as_str(s), "segment", s, 0) : s \in StaticFileSegment}
NumberTokens ==
    {Token(<<"0">>, "number", Headers, 0),
     Token(<<"5">>, "number", Headers, 5),
     Token(<<"1", "2">>, "number", Headers, 12),
     Token(<<"0", "0", "7">>, "number", Headers, 7),
     Token(<<"+", "3">>, "number", Headers, 3)}
\* not numbers: empty, a letter, a negative number, digits then a letter, a
\* lone sign
OtherTokens ==
    {Token(<<>>, "other", Headers, 0),
     Token(<<"x">>, "other", Headers, 0),
     Token(<<"-", "1">>, "other", Headers, 0),
     Token(<<"1", "a">>, "other", Headers, 0),
     Token(<<"+">>, "other", Headers, 0)}

\* the tokens tried at position i of a name
PosTokens(i) ==
    CASE i = 1 -> StaticTokens \cup
                  {Token(<<"S", "t", "a", "t", "i", "c">>, "other", Headers, 0),
                   Token(<<>>, "other", Headers, 0)}
      [] i = 2 -> FileTokens \cup {Token(<<"x">>, "other", Headers, 0)}
      [] i = 3 -> SegmentTokens \cup
                  {Token(<<"h", "e", "a", "d", "e", "r">>, "other", Headers, 0),
                   Token(<<"5">>, "number", Headers, 5)}
      [] i \in {4, 5} -> NumberTokens \cup OtherTokens
      [] OTHER -> {Token(<<"l", "z", "4">>, "other", Headers, 0),
                   Token(<<"7">>, "number", Headers, 7)}

RECURSIVE TokenSeqs(_)
TokenSeqs(k) ==
    IF k = 0 THEN {<<>>}
    ELSE {Append(s, tok) : s \in TokenSeqs(k - 1), tok \in PosTokens(k)}

\* the tokens' characters joined by '_'
RECURSIVE join(_)
join(toks) ==
    IF Len(toks) = 0 THEN <<>>
    ELSE IF Len(toks) = 1 THEN toks[1].text
    ELSE toks[1].text \o <<"_">> \o join(Tail(toks))

IdleHeader ==
    SegmentHeader(SegmentRangeInclusive(0, BucketLen - 1), None, None, Headers)

\* the inputs: a segment and a range for filename, or a list of tokens
FileInputs ==
    {[kind |-> "filename", segment |-> segment, start |-> s, end |-> e,
      tokens |-> <<>>] :
        segment \in StaticFileSegment, s \in 0..MaxNameBlock, e \in 0..MaxNameBlock}
    \cup
    {[kind |-> "tokens", segment |-> Headers, start |-> 0, end |-> 0,
      tokens |-> toks] : toks \in UNION {TokenSeqs(k) : k \in 0..MaxTokens}}

InitFile ==
    /\ header = IdleHeader
    /\ op = "new"
    /\ arg = -1
    /\ ret = -1
    /\ fsrc \in FileInputs
    /\ fname = <<>>
    /\ parsed = NoFile
    /\ fpc = "input"
    /\ CopyIdle
    /\ JarIdle

\* segment.filename(&[start, end])
GenerateName ==
    /\ fpc = "input"
    /\ fsrc.kind = "filename"
    /\ fname' = filename(fsrc.segment, SegmentRangeInclusive(fsrc.start, fsrc.end))
    /\ fpc' = "named"
    /\ UNCHANGED <<hvars, cvars, jvars, fsrc, parsed>>

\* a name put together from tokens
JoinName ==
    /\ fpc = "input"
    /\ fsrc.kind = "tokens"
    /\ fname' = join(fsrc.tokens)
    /\ fpc' = "named"
    /\ UNCHANGED <<hvars, cvars, jvars, fsrc, parsed>>

\* StaticFileSegment::parse_filename(&fname)
ParseName ==
    /\ fpc = "named"
    /\ parsed' = parse_filename(fname)
    /\ fpc' = "parsed"
    /\ UNCHANGED <<hvars, cvars, jvars, fsrc, fname>>

NextFile == GenerateName \/ JoinName \/ ParseName

SpecFile == InitFile /\ [][NextFile]_vars

\* C9: for every segment S and every range [s,e] with s <= e,
\* parse_filename(S.filename([s,e])) is exactly (S, [s,e]).
C9_FilenameRoundTrip ==
    (fpc = "parsed" /\ fsrc.kind = "filename" /\ fsrc.start <= fsrc.end)
    => parsed = SomeFile(fsrc.segment,
                         SegmentRangeInclusive(fsrc.start, fsrc.end))

\* a generated name with a two-digit one-block range has been parsed back
C9_Witness ==
    /\ fpc = "parsed"
    /\ fsrc.kind = "filename"
    /\ fsrc.segment = Receipts
    /\ fsrc.start = fsrc.end
    /\ fsrc.start >= 10
    /\ parsed.some

\* the ways C10 lists for a name to be unparseable
MissingRange(toks) == Len(toks) < 5
BadPrefix(toks) ==
    \/ Len(toks) < 1 \/ toks[1].kind # "static"
    \/ Len(toks) < 2 \/ toks[2].kind # "file"
BadSegment(toks) == Len(toks) < 3 \/ toks[3].kind # "segment"
BadNumbers(toks) ==
    \/ MissingRange(toks)
    \/ toks[4].kind # "number"
    \/ toks[5].kind # "number"
StartAfterEnd(toks) ==
    /\ ~BadNumbers(toks)
    /\ toks[4].value > toks[5].value

\* C10: parse_filename returns nothing for every name whose range has
\* start > end, whose segment token is not headers, transactions or receipts,
\* whose first two tokens are not static and file, or whose range tokens are
\* missing or not numbers.
C10_ParseRejects ==
    (/\ fpc = "parsed"
     /\ fsrc.kind = "tokens"
     /\ \/ StartAfterEnd(fsrc.tokens)
        \/ BadSegment(fsrc.tokens)
        \/ BadPrefix(fsrc.tokens)
        \/ BadNumbers(fsrc.tokens))
    => ~parsed.some

\* a name that is well formed but for start > end has been rejected
C10_Witness ==
    /\ fpc = "parsed"
    /\ fsrc.kind = "tokens"
    /\ ~BadPrefix(fsrc.tokens)
    /\ ~BadSegment(fsrc.tokens)
    /\ StartAfterEnd(fsrc.tokens)
    /\ ~parsed.some

(***************************************************************************)
(* copy_to_static_files of Headers, Transactions and Receipts.             *)
(***************************************************************************)
\* the number of transactions of each block of the store: 1, 2, 0, 1, ...
TxCount == [b \in Blocks |-> (b + 1) % 3]

RECURSIVE FirstTxNum(_, _)
FirstTxNum(count, b) ==
    IF b = 0 THEN 0 ELSE FirstTxNum(count, b - 1) + count[b - 1]

Layout(count) ==
    [b \in Blocks |-> [first_tx_num |-> FirstTxNum(count, b), tx_count |-> count[b]]]

\* a table with a row for every block, or with one row missing
TablesOfBlocks == {Blocks} \cup {Blocks \ {b} : b \in Blocks}

\* the transaction numbers of the blocks of the store
TxNumbers == 0..(FirstTxNum(TxCount, MaxCopyBlock) + TxCount[MaxCopyBlock] - 1)

\* the stores: for a Headers run the Headers table may miss its last row and
\* the other two tables any one row; for a Transactions or Receipts run the
\* block-body index of any one block may be absent
Stores(segment) ==
    IF segment = Headers
    THEN {[headers |-> h, tds |-> td, canonical |-> c, body_indices |-> Blocks,
           layout |-> Layout(TxCount),
           transactions |-> TxNumbers, receipts |-> TxNumbers] :
             h \in {Blocks, Blocks \ {MaxCopyBlock}},
             td \in TablesOfBlocks, c \in TablesOfBlocks}
    ELSE {[headers |-> Blocks, tds |-> Blocks, canonical |-> Blocks,
           body_indices |-> ix, layout |-> Layout(TxCount),
           transactions |-> TxNumbers, receipts |-> TxNumbers] :
             ix \in TablesOfBlocks}

InitCopy ==
    /\ header = IdleHeader
    /\ op = "new"
    /\ arg = -1
    /\ ret = -1
    /\ fname = <<>>
    /\ fsrc = NoSource
    /\ parsed = NoFile
    /\ fpc = "input"
    /\ debug_assertions \in BOOLEAN
    /\ \E segment \in StaticFileSegment :
          /\ active = {segment}
          /\ db \in Stores(segment)
    /\ sfile = [s \in StaticFileSegment |-> NewFile(s, 0)]
    /\ run = [s \in StaticFileSegment |-> IdleRun]
    /\ prev = [s \in StaticFileSegment |-> IdleRun]
    /\ nruns = [s \in StaticFileSegment |-> 0]
    /\ JarIdle

\* the block the header of a file expects next
NextBlock(h) ==
    IF h.block_range.some THEN h.block_range.end + 1 ELSE expected_block_start(h)

Min3(a, b, c) ==
    IF a <= b /\ a <= c THEN a ELSE IF b <= c THEN b ELSE c

EndRun(r, result) == [r EXCEPT !.pc = "done", !.result = result]

\* the head of a call over s..=e: get_writer(*block_range.start(), segment)?,
\* then the cursors and walkers (Headers) or the for loop over block_range
\* (Transactions, Receipts); files are the static files, d is the store
BeginRun(segment, files, d, s, e, writer_ok) ==
    LET w == get_writer(s, segment)
        r == [IdleRun EXCEPT !.pc = "loop", !.start = s, !.end = e,
                             !.rows0 = Len(files[w.segment].rows),
                             !.block_range0 =
                                 files[w.segment].header.block_range]
    IN  IF ~writer_ok THEN EndRun(r, IoError)
        ELSE IF segment = Headers
        THEN [r EXCEPT !.writer = w,
                       !.hw = walk_range(d.headers, s, e),
                       !.tw = walk_range(d.tds, s, e),
                       !.cw = walk_range(d.canonical, s, e),
                       !.i = 1]
        ELSE [r EXCEPT !.writer = w, !.block = s]

\* the call is made.  The first call on a bucket starts at the block its
\* header expects; a later call is given any range.
StartRun(segment) ==
    /\ segment \in active
    /\ run[segment].pc \in {"idle", "done"}
    /\ nruns[segment] < MaxRuns
    /\ \E s \in Blocks, e \in Blocks, writer_ok \in BOOLEAN :
          /\ s <= e
          /\ nruns[segment] = 0 => s = NextBlock(sfile[segment].header)
          /\ run' = [run EXCEPT ![segment] =
                         BeginRun(segment, sfile, db, s, e, writer_ok)]
    /\ prev' = [prev EXCEPT ![segment] = run[segment]]
    /\ nruns' = [nruns EXCEPT ![segment] = @ + 1]
    /\ UNCHANGED <<hvars, fvars, jvars, debug_assertions, db, sfile, active>>

\* a plausible slip: the row is appended before the tables are compared
HeadersBody_append_first(f, r, debug, outcome) ==
    LET hb == r.hw[r.i]
        tb == r.tw[r.i]
        cb == r.cw[r.i]
        w == append_header(f, Row(hb, tb, cb))
    IN  IF outcome = "read_err" THEN [file |-> f, run |-> EndRun(r, IoError)]
        ELSE IF outcome = "append_err" THEN [file |-> f, run |-> EndRun(r, IoError)]
        ELSE IF debug /\ (hb # tb \/ tb # cb \/ w.block # hb)
        THEN [file |-> w.file, run |-> EndRun(r, Panic)]
        ELSE [file |-> w.file, run |-> [r EXCEPT !.i = @ + 1]]

\* one pass of the body of the for loop of Headers::copy_to_static_files:
\* the file and the call after it
HeadersBody(f, r, debug, outcome) ==
    LET hb == r.hw[r.i]
        tb == r.tw[r.i]
        cb == r.cw[r.i]
        w == append_header(f, Row(hb, tb, cb))
    IN  \* header_entry?, header_td_entry?, canonical_header_entry?
        IF outcome = "read_err" THEN [file |-> f, run |-> EndRun(r, IoError)]
        \* debug_assert_eq!(header_block, header_td_block);
        \* debug_assert_eq!(header_td_block, canonical_header_block)
        ELSE IF debug /\ (hb # tb \/ tb # cb)
        THEN [file |-> f, run |-> EndRun(r, Panic)]
        \* static_file_writer.append_header(..)?
        ELSE IF outcome = "append_err" THEN [file |-> f, run |-> EndRun(r, IoError)]
        \* debug_assert_eq!(_static_file_block, header_block)
        ELSE IF debug /\ w.block # hb
        THEN [file |-> w.file, run |-> EndRun(r, Panic)]
        ELSE [file |-> w.file, run |-> [r EXCEPT !.i = @ + 1]]

HeadersStep ==
    /\ Headers \in active
    /\ run[Headers].pc = "loop"
    /\ run[Headers].i <= Min3(Len(run[Headers].hw), Len(run[Headers].tw),
                              Len(run[Headers].cw))
    /\ \E outcome \in {"ok", "read_err", "append_err"} :
          LET w == run[Headers].writer.segment
              n == HeadersBody(sfile[w], run[Headers], debug_assertions, outcome)
          IN  /\ sfile' = [sfile EXCEPT ![w] = n.file]
              /\ run' = [run EXCEPT ![Headers] = n.run]
    /\ UNCHANGED <<hvars, fvars, jvars, debug_assertions, db, prev, nruns, active>>

\* the zip is used up: Ok(())
HeadersReturn ==
    /\ run[Headers].pc = "loop"
    /\ run[Headers].i > Min3(Len(run[Headers].hw), Len(run[Headers].tw),
                             Len(run[Headers].cw))
    /\ run' = [run EXCEPT ![Headers] = EndRun(@, Ok)]
    /\ UNCHANGED <<hvars, fvars, jvars, debug_assertions, db, sfile, prev, nruns, active>>

\* a plausible slip: a block without block-body index is skipped
BlockHead_skip_missing(f, r, d, segment, debug, outcome) ==
    LET w == writer_increment_block(f)
        indices == block_body_indices(d, r.block)
        range == tx_num_range(indices)
    IN  IF outcome = "increment_err" THEN [file |-> f, run |-> EndRun(r, IoError)]
        ELSE IF debug /\ w.block # r.block
        THEN [file |-> w.file, run |-> EndRun(r, Panic)]
        ELSE IF outcome = "read_err" THEN [file |-> w.file, run |-> EndRun(r, IoError)]
        ELSE IF ~indices.some
        THEN [file |-> w.file, run |-> [r EXCEPT !.block = @ + 1]]
        ELSE [file |-> w.file,
              run |-> [r EXCEPT !.pc = "rows",
                                !.pending = walk_range(SegmentTable(d, segment),
                                                       range.start, range.end)]]

\* a plausible slip: the block counter is advanced twice for a block
BlockHead_increments_twice(f, r, d, segment, debug, outcome) ==
    LET w == writer_increment_block(writer_increment_block(f).file)
        indices == block_body_indices(d, r.block)
        range == tx_num_range(indices)
    IN  IF outcome = "increment_err" THEN [file |-> f, run |-> EndRun(r, IoError)]
        ELSE IF debug /\ w.block # r.block
        THEN [file |-> w.file, run |-> EndRun(r, Panic)]
        ELSE IF outcome = "read_err" THEN [file |-> w.file, run |-> EndRun(r, IoError)]
        ELSE IF ~indices.some
        THEN [file |-> w.file, run |-> EndRun(r, BlockBodyIndicesNotFound(r.block))]
        ELSE [file |-> w.file,
              run |-> [r EXCEPT !.pc = "rows",
                                !.pending = walk_range(SegmentTable(d, segment),
                                                       range.start, range.end)]]

\* the head of the body of the for loop of Transactions:: and
\* Receipts::copy_to_static_files, up to the walker over the block's rows
BlockHead(f, r, d, segment, debug, outcome) ==
    LET w == writer_increment_block(f)
        indices == block_body_indices(d, r.block)
        range == tx_num_range(indices)
    IN  \* static_file_writer.increment_block(segment, block)?
        IF outcome = "increment_err" THEN [file |-> f, run |-> EndRun(r, IoError)]
        \* debug_assert_eq!(_static_file_block, block)
        ELSE IF debug /\ w.block # r.block
        THEN [file |-> w.file, run |-> EndRun(r, Panic)]
        \* provider.block_body_indices(block)?, cursor_read()?, walk_range(..)?
        ELSE IF outcome = "read_err" THEN [file |-> w.file, run |-> EndRun(r, IoError)]
        \* .ok_or(ProviderError::BlockBodyIndicesNotFound(block))?
        ELSE IF ~indices.some
        THEN [file |-> w.file, run |-> EndRun(r, BlockBodyIndicesNotFound(r.block))]
        ELSE [file |-> w.file,
              run |-> [r EXCEPT !.pc = "rows",
                                !.pending = walk_range(SegmentTable(d, segment),
                                                       range.start, range.end)]]

BlockStep(segment) ==
    /\ segment \in {Transactions, Receipts}
    /\ run[segment].pc = "loop"
    /\ run[segment].block <= run[segment].end
    /\ \E outcome \in {"ok", "increment_err", "read_err"} :
          LET w == run[segment].writer.segment
              n == BlockHead(sfile[w], run[segment], db, segment,
                             debug_assertions, outcome)
          IN  /\ sfile' = [sfile EXCEPT ![w] = n.file]
              /\ run' = [run EXCEPT ![segment] = n.run]
    /\ UNCHANGED <<hvars, fvars, jvars, debug_assertions, db, prev, nruns, active>>

\* one row of the block: entry?, then append_transaction(tx_number, tx)? or
\* the next row inside append_receipts(..)?
RowStep(segment) ==
    /\ segment \in {Transactions, Receipts}
    /\ run[segment].pc = "rows"
    /\ run[segment].pending # <<>>
    /\ \E row_ok \in BOOLEAN :
          IF row_ok
          THEN /\ sfile' = [sfile EXCEPT ![run[segment].writer.segment] =
                               append_transaction(@, Head(run[segment].pending))]
               /\ run' = [run EXCEPT ![segment].pending = Tail(@)]
          ELSE /\ sfile' = sfile
               /\ run' = [run EXCEPT ![segment] = EndRun(@, IoError)]
    /\ UNCHANGED <<hvars, fvars, jvars, debug_assertions, db, prev, nruns, active>>

\* the walker of the block is used up: on to the next block
BlockDone(segment) ==
    /\ segment \in {Transactions, Receipts}
    /\ run[segment].pc = "rows"
    /\ run[segment].pending = <<>>
    /\ run' = [run EXCEPT ![segment].pc = "loop", ![segment].block = @ + 1]
    /\ UNCHANGED <<hvars, fvars, jvars, debug_assertions, db, sfile, prev, nruns, active>>

\* block_range is used up: Ok(())
BlocksReturn(segment) ==
    /\ segment \in {Transactions, Receipts}
    /\ run[segment].pc = "loop"
    /\ run[segment].block > run[segment].end
    /\ run' = [run EXCEPT ![segment] = EndRun(@, Ok)]
    /\ UNCHANGED <<hvars, fvars, jvars, debug_assertions, db, sfile, prev, nruns, active>>

NextCopy ==
    \/ \E segment \in StaticFileSegment : StartRun(segment)
    \/ HeadersStep
    \/ HeadersReturn
    \/ \E segment \in StaticFileSegment : BlockStep(segment)
    \/ \E segment \in StaticFileSegment : RowStep(segment)
    \/ \E segment \in StaticFileSegment : BlockDone(segment)
    \/ \E segment \in StaticFileSegment : BlocksReturn(segment)

SpecCopy == InitCopy /\ [][NextCopy]_vars

(***************************************************************************)
(* Properties of copy_to_static_files.                                     *)
(***************************************************************************)
\* every table holds a row for every block and every block-body index is there
StoreComplete ==
    /\ db.headers = Blocks /\ db.tds = Blocks /\ db.canonical = Blocks
    /\ db.body_indices = Blocks

NoDuplicateRows(rows) ==
    \A i \in 1..Len(rows), j \in 1..Len(rows) : i # j => rows[i].key # rows[j].key

\* the transaction numbers of a block
TxOf(b) ==
    db.layout[b].first_tx_num..(db.layout[b].first_tx_num + db.layout[b].tx_count - 1)

\* the keys of the rows the call in progress has appended
AppendedKeys(segment) ==
    {sfile[segment].rows[i].key :
        i \in (run[segment].rows0 + 1)..Len(sfile[segment].rows)}

\* every row of every block the call found committed was in the file
PrefixWritten(segment) ==
    run[segment].block_range0.some =>
       \A b \in run[segment].block_range0.start..run[segment].block_range0.end :
          IF segment = Headers
          THEN \E i \in 1..run[segment].rows0 : sfile[segment].rows[i].key = b
          ELSE \A tx \in TxOf(b) :
                  \E i \in 1..run[segment].rows0 : sfile[segment].rows[i].key = tx

\* C3: a first call over [a,b] on a fresh bucket is stopped by an error after
\* a proper prefix of [a,b] was committed with all its rows; a second call
\* over [c,d] with a <= c <= b <= d returns Ok.  Then the committed block
\* range is [a,d] and no row is in the file twice.
C3_ResumeIdempotence ==
    \A segment \in StaticFileSegment :
       (/\ StoreComplete
        /\ nruns[segment] = 2
        /\ prev[segment].pc = "done"
        /\ prev[segment].result = IoError
        /\ run[segment].block_range0.some
        /\ run[segment].block_range0.end < prev[segment].end
        /\ PrefixWritten(segment)
        /\ prev[segment].start <= run[segment].start
        /\ run[segment].start <= prev[segment].end
        /\ prev[segment].end <= run[segment].end
        /\ run[segment].pc = "done"
        /\ run[segment].result = Ok)
       => /\ sfile[segment].header.block_range =
                SegmentRangeInclusive(prev[segment].start, run[segment].end)
          /\ NoDuplicateRows(sfile[segment].rows)

\* C4: no row whose header, total difficulty and canonical hash come from
\* different blocks is ever appended to the Headers file: the call fails
\* before appending it.
C4_CrossTableFatal ==
    \A i \in 1..Len(sfile[Headers].rows) :
       /\ sfile[Headers].rows[i].key = sfile[Headers].rows[i].td
       /\ sfile[Headers].rows[i].td = sfile[Headers].rows[i].hash

\* C5: when the first Transactions or Receipts call on a fresh bucket has
\* stopped with an error, every block inside the header's committed block
\* range has all its rows in the file.
C5_HeaderClaimsOnlyWrittenBlocks ==
    \A segment \in {Transactions, Receipts} :
       (/\ nruns[segment] = 1
        /\ run[segment].pc = "done"
        /\ run[segment].result.kind \in {"BlockBodyIndicesNotFound", "IoError"}
        /\ sfile[segment].header.block_range.some)
       => \A b \in Blocks :
             (/\ sfile[segment].header.block_range.start <= b
              /\ b <= sfile[segment].header.block_range.end)
             => TxOf(b) \subseteq AppendedKeys(segment)

\* C6: a Transactions or Receipts call never gets past a block of its range
\* whose block-body index is absent: it has not entered the block's rows, has
\* appended none of them, has gone on to no later block, and when it has ended
\* at that block it has returned BlockBodyIndicesNotFound(b), unless an I/O
\* error or a failed debug assertion stopped it first; the error
\* BlockBodyIndicesNotFound(b) is returned at block b only, for an absent index.
C6_MissingIndexIsFatal ==
    \A segment \in {Transactions, Receipts} :
       LET r == run[segment] IN
       /\ r.result.kind = "BlockBodyIndicesNotFound"
          => /\ r.result.block \notin db.body_indices
             /\ r.block = r.result.block
             /\ r.pc = "done"
             /\ AppendedKeys(segment) \cap TxOf(r.result.block) = {}
       /\ r.pc # "idle"
          => \A b \in r.start..r.end :
                b \notin db.body_indices
                => /\ r.block <= b
                   /\ r.block = b => r.pc # "rows"
                   /\ r.block = b /\ r.pc = "done"
                      => r.result \in {BlockBodyIndicesNotFound(b), IoError, Panic}
                   /\ AppendedKeys(segment) \cap TxOf(b) = {}
       /\ r.result = Ok => \A b \in r.start..r.end : b \in db.body_indices

\* the call has copied the rows of an earlier block, then stopped at a block
\* without index, with later blocks left in its range
C6_Witness ==
    \E segment \in {Transactions, Receipts} :
       /\ run[segment].result.kind = "BlockBodyIndicesNotFound"
       /\ run[segment].start < run[segment].result.block
       /\ run[segment].result.block < run[segment].end
       /\ AppendedKeys(segment) # {}
       /\ TxOf(run[segment].result.block) # {}

\* the keys of the rows the call in progress has appended strictly increase
RunKeysAscending(segment) ==
    \A i, j \in (run[segment].rows0 + 1)..Len(sfile[segment].rows) :
       i < j => sfile[segment].rows[i].key < sfile[segment].rows[j].key

\* C15: within one copy_to_static_files call the keys of the appended rows
\* strictly increase (block numbers for Headers, transaction numbers for
\* Transactions and Receipts, within and across blocks), and a Transactions or
\* Receipts call never goes back to an earlier block: it leaves the rows of a
\* block for a strictly later block.
C15_AscendingAppends ==
    /\ [](\A segment \in StaticFileSegment : RunKeysAscending(segment))
    /\ [][\A segment \in {Transactions, Receipts} :
            (nruns'[segment] = nruns[segment])
            => /\ run'[segment].block >= run[segment].block
               /\ (run[segment].pc = "rows" /\ run'[segment].pc = "loop")
                  => run'[segment].block > run[segment].block]_vars

\* a Receipts call has returned Ok after appending the rows of two blocks or
\* more
C15_Witness ==
    /\ run[Receipts].pc = "done"
    /\ run[Receipts].result = Ok
    /\ run[Receipts].end > run[Receipts].start
    /\ Len(sfile[Receipts].rows) >= run[Receipts].rows0 + 3

(***************************************************************************)
(* find_fixed_range applied to the blocks around the boundaries of the     *)
(* first buckets.                                                          *)
(***************************************************************************)
BucketOffsets ==
    (0..MaxOffset) \cup
    ((BLOCKS_PER_STATIC_FILE - 1 - MaxOffset)..(BLOCKS_PER_STATIC_FILE - 1))

BucketInputs ==
    {k * BLOCKS_PER_STATIC_FILE + d : k \in 0..MaxBucket, d \in BucketOffsets}

InitBucket ==
    /\ header = IdleHeader
    /\ op = "new"
    /\ arg = -1
    /\ ret = -1
    /\ fname = <<>>
    /\ fsrc = NoSource
    /\ parsed = NoFile
    /\ fpc = "input"
    /\ CopyIdle
    /\ \E block \in BucketInputs :
          bucket = [pc |-> "input", block |-> block, range |-> None]
    /\ sample = NoSample
    /\ build = NoBuild
    /\ trail = <<>>

\* find_fixed_range(block)
FindFixedRange ==
    /\ bucket.pc = "input"
    /\ bucket' = [bucket EXCEPT !.pc = "done",
                                !.range = find_fixed_range(bucket.block)]
    /\ UNCHANGED <<hvars, fvars, cvars, sample, build, trail>>

NextBucket == FindFixedRange

SpecBucket == InitBucket /\ [][NextBucket]_vars

\* C11: find_fixed_range(b) is [k*500000, k*500000 + 499999] with
\* k = b div 500000: it contains b, starts at a multiple of 500000 and spans
\* 500000 blocks; the bucket of 499999 is [0, 499999] and the bucket of
\* 500000 is [500000, 999999].
C11_Bucketing ==
    bucket.pc = "done"
    => LET b == bucket.block
           k == b \div 500000
       IN  /\ bucket.range = SegmentRangeInclusive(k * 500000, k * 500000 + 499999)
           /\ bucket.range.start <= b
           /\ b <= bucket.range.end
           /\ bucket.range.start % 500000 = 0
           /\ bucket.range.end - bucket.range.start + 1 = 500000
           /\ b = 499999 => bucket.range = SegmentRangeInclusive(0, 499999)
           /\ b = 500000 => bucket.range = SegmentRangeInclusive(500000, 999999)

\* the first block of the second bucket has been mapped to its bucket
C11_Witness ==
    /\ bucket.pc = "done"
    /\ bucket.block = 500000
    /\ bucket.range.start = 500000

(***************************************************************************)
(* dataset_for_compression over tables of up to a little more than 1000    *)
(* rows.                                                                   *)
(***************************************************************************)
\* the numbers next to 0 and next to the cap
SampleSizes ==
    (0..SampleSlack) \cup ((SAMPLE_ROWS - SampleSlack)..(SAMPLE_ROWS + SampleSlack))

\* the tables: a row for every key up to the end of the range or one past it,
\* the same with the row before the end missing, and the last two rows only
SampleTables(end) ==
    {0..end, 0..(end + 1), (0..end) \ {saturating_sub(end, 1)},
     saturating_sub(end, 1)..end}

InitSample ==
    /\ header = IdleHeader
    /\ op = "new"
    /\ arg = -1
    /\ ret = -1
    /\ fname = <<>>
    /\ fsrc = NoSource
    /\ parsed = NoFile
    /\ fpc = "input"
    /\ CopyIdle
    /\ bucket = NoBucket
    /\ \E end \in SampleSizes, range_len \in SampleSizes :
          \E table \in SampleTables(end), start \in {0, end} :
             sample = [NoSample EXCEPT !.pc = "input", !.table = table,
                                       !.start = start, !.end = end,
                                       !.range_len = range_len]
    /\ build = NoBuild
    /\ trail = <<>>

\* dataset_for_compression::<DB, T>(provider, &range, range_len)
Sample ==
    /\ sample.pc = "input"
    /\ \E outcome \in {"ok", "cursor_err", "row_err"} :
          LET d == dataset_for_compression(sample.table,
                       [start |-> sample.start, end |-> sample.end],
                       sample.range_len, outcome)
          IN  sample' = [sample EXCEPT !.pc = "done", !.result = d.result,
                                       !.rows = d.rows]
    /\ UNCHANGED <<hvars, fvars, cvars, bucket, build, trail>>

NextSample == Sample

SpecSample == InitSample /\ [][NextSample]_vars

\* C16: dataset_for_compression returns at most min(range_len, 1000) rows;
\* they are the rows met walking backward from the end key of the range:
\* descending keys, none above the end key, none skipped, the row of the end
\* key first when the table holds it.
C16_SamplingBound ==
    (sample.pc = "done" /\ sample.result = Ok)
    => LET rows == sample.rows
           n == Len(rows)
       IN  /\ n <= sample.range_len
           /\ n <= 1000
           /\ \A i \in 1..n : rows[i] \in sample.table /\ rows[i] <= sample.end
           /\ \A i \in 1..(n - 1) : rows[i] > rows[i + 1]
           /\ (n > 0 /\ sample.end \in sample.table) => rows[1] = sample.end
           /\ n > 0 => {rows[i] : i \in 1..n} =
                          {k \in sample.table : rows[n] <= k /\ k <= sample.end}

\* asked for more than 1000 rows of a table that holds them, the call has
\* returned 1000 rows
C16_Witness ==
    /\ sample.pc = "done"
    /\ sample.result = Ok
    /\ sample.range_len > 1000
    /\ Cardinality(sample.table) > 1000
    /\ Len(sample.rows) = 1000

(***************************************************************************)
(* create_static_file_file of Headers, Transactions and Receipts.          *)
(***************************************************************************)
\* the largest key of the tables
LastKey == MaxJarBlock

Reverse(s) == [i \in 1..Len(s) |-> s[Len(s) + 1 - i]]

\* cursor.walk(Some(key)): the walker goes from the key to the last key of
\* the table
walk(table, key) == Reverse(keys_descending(table, key, LastKey))

\* the rows of a key range, in key order
rows_in_range(table, lo, hi) == Reverse(keys_descending(table, lo, hi))

\* the store with the headers of the blocks 0..MaxJarBlock
LargeStore ==
    [headers |-> 0..MaxJarBlock, tds |-> 0..MaxJarBlock,
     canonical |-> 0..MaxJarBlock, body_indices |-> Blocks,
     layout |-> Layout(TxCount),
     transactions |-> TxNumbers, receipts |-> TxNumbers]

\* a table with a row for every transaction, or with one row missing
TablesOfTxs == {TxNumbers} \cup {TxNumbers \ {n} : n \in TxNumbers}

\* the stores and block ranges of a build: the blocks 0..MaxCopyBlock, with
\* one row of the Headers table or of the CanonicalHeaders table missing
\* (Headers), or one block-body index or one row of the segment's table
\* missing (Transactions, Receipts); and the large store of headers with the
\* range [0, 999]
BuildInputs(segment) ==
    {[store |-> st, start |-> r[1], end |-> r[2]] :
        st \in IF segment = Headers
                THEN {[headers |-> h, tds |-> Blocks, canonical |-> c,
                       body_indices |-> Blocks, layout |-> Layout(TxCount),
                       transactions |-> TxNumbers, receipts |-> TxNumbers] :
                          h \in TablesOfBlocks, c \in TablesOfBlocks}
                ELSE {[headers |-> Blocks, tds |-> Blocks, canonical |-> Blocks,
                       body_indices |-> ix, layout |-> Layout(TxCount),
                       transactions |-> tx, receipts |-> tx] :
                          ix \in TablesOfBlocks, tx \in TablesOfTxs},
        r \in {r \in Blocks \X Blocks : r[1] <= r[2]}}
    \cup (IF segment = Headers
          THEN {[store |-> LargeStore, start |-> 0, end |-> 999]}
          ELSE {})

InitBuild ==
    /\ header = IdleHeader
    /\ op = "new"
    /\ arg = -1
    /\ ret = -1
    /\ fname = <<>>
    /\ fsrc = NoSource
    /\ parsed = NoFile
    /\ fpc = "input"
    /\ debug_assertions = FALSE
    /\ sfile = [s \in StaticFileSegment |-> NewFile(s, 0)]
    /\ run = [s \in StaticFileSegment |-> IdleRun]
    /\ prev = [s \in StaticFileSegment |-> IdleRun]
    /\ nruns = [s \in StaticFileSegment |-> 0]
    /\ active = {}
    /\ bucket = NoBucket
    /\ sample = NoSample
    /\ trail = <<>>
    /\ \E segment \in StaticFileSegment, config \in SegmentConfig :
          \E input \in BuildInputs(segment) :
             /\ db = input.store
             /\ build = [NoBuild EXCEPT !.pc = "start", !.segment = segment,
                                        !.config = config,
                                        !.start = input.start,
                                        !.end = input.end]

EndBuild(b, result) == [b EXCEPT !.pc = "done", !.result = result]

\* the row count: block_range.count() for Headers; for Transactions and
\* Receipts transaction_range_by_block_range(block_range)? and
\* tx_range.count()
BuildStart ==
    /\ build.pc = "start"
    /\ \E outcome \in {"ok", "resolve_err"} :
          LET block_range == [start |-> build.start, end |-> build.end]
              resolved == transaction_range_by_block_range(db, block_range)
          IN  IF build.segment = Headers
              THEN /\ outcome = "ok"
                   /\ build' = [build EXCEPT !.pc = "counted",
                                             !.range_len = range_count(block_range)]
              ELSE build' =
                     IF outcome = "resolve_err" THEN EndBuild(build, IoError)
                     ELSE IF resolved.result # Ok
                     THEN EndBuild(build, resolved.result)
                     ELSE [build EXCEPT
                             !.pc = "counted",
                             !.tx_range = SegmentRangeInclusive(
                                 resolved.range.start, resolved.range.end),
                             !.range_len = range_count(resolved.range)]
    /\ UNCHANGED <<hvars, fvars, cvars, bucket, sample, trail>>

\* let jar = prepare_jar(..)?
PrepareJar ==
    /\ build.pc = "counted"
    /\ \E outcome \in {"ok", "resolve_err", "cursor_err", "row_err", "train_err"} :
          LET block_range == [start |-> build.start, end |-> build.end]
              captured ==
                  [range |-> IF build.segment = Headers THEN block_range
                             ELSE [start |-> build.tx_range.start,
                                   end |-> build.tx_range.end],
                   range_len |-> build.range_len]
              p == prepare_jar(db, build.segment, build.config, block_range,
                               build.range_len, captured, outcome)
          IN  build' =
                 IF p.result # Ok
                 THEN [EndBuild(build, p.result) EXCEPT
                          !.sample_calls = p.sample_calls]
                 ELSE [build EXCEPT !.pc = "jar", !.jar = p.jar,
                                    !.samples = p.samples,
                                    !.sample_calls = p.sample_calls]
    /\ UNCHANGED <<hvars, fvars, cvars, bucket, sample, trail>>

\* let hashes = if config.filters.has_filters() { Some(..) } else { None }
CollectKeys ==
    /\ build.pc = "jar"
    /\ \E outcome \in {"ok", "read_err"} :
          \* Headers: cursor_read()? in any case, walk(..)? with filters;
          \* Transactions, Receipts: transaction_hashes_by_range(..)? with filters
          /\ outcome = "read_err"
                => build.segment = Headers \/ has_filters(build.config.filters)
          /\ build' =
                IF outcome = "read_err" THEN EndBuild(build, IoError)
                ELSE IF ~has_filters(build.config.filters)
                THEN [build EXCEPT !.pc = "keys"]
                ELSE [build EXCEPT
                        !.pc = "keys",
                        !.keys_read = TRUE,
                        !.keys =
                           IF build.segment = Headers
                           THEN take(walk(db.canonical, build.start),
                                     build.range_len)
                           ELSE walk_range(db.transactions,
                                           build.tx_range.start,
                                           build.tx_range.end)]
    /\ UNCHANGED <<hvars, fvars, cvars, bucket, sample, trail>>

\* create_static_file_T1_T2_T3(..)? or create_static_file_T1(..)?, then Ok(()):
\* the rows of the range are streamed into the jar and the file is finalized
CreateFile ==
    /\ build.pc = "keys"
    /\ \E engine_ok \in BOOLEAN :
          build' =
             IF ~engine_ok THEN EndBuild(build, IoError)
             ELSE [EndBuild(build, Ok) EXCEPT
                     !.file =
                        IF build.segment = Headers
                        THEN rows_in_range(db.headers, build.start, build.end)
                        ELSE rows_in_range(ColumnTable(db, build.segment, 1),
                                           build.tx_range.start,
                                           build.tx_range.end)]
    /\ UNCHANGED <<hvars, fvars, cvars, bucket, sample, trail>>

NextBuild == BuildStart \/ PrepareJar \/ CollectKeys \/ CreateFile

SpecBuild == InitBuild /\ [][NextBuild]_vars

\* the range the rows of a build are counted in: the block range for
\* Headers, the transaction range for Transactions and Receipts
RowRange ==
    IF build.segment = Headers
    THEN [start |-> build.start, end |-> build.end]
    ELSE [start |-> build.tx_range.start, end |-> build.tx_range.end]

\* C17: a build that has gone past dictionary sampling holds, for every
\* column, a sample of min(row count, 1000) rows of its range, and a build
\* that has gone past key collection holds one key per counted row, all of its
\* range: with a counted row absent from the store the build has stopped
\* instead.
C17_AbsentRowIsFatal ==
    /\ (build.pc \in {"jar", "keys", "done"} /\ build.samples # <<>>)
       => \A c \in 1..Len(build.samples) :
             /\ Len(build.samples[c]) = min(build.range_len, 1000)
             /\ \A i \in 1..Len(build.samples[c]) :
                   /\ RowRange.start <= build.samples[c][i]
                   /\ build.samples[c][i] <= RowRange.end
    /\ build.keys_read
       => /\ Len(build.keys) = build.range_len
          /\ \A i \in 1..Len(build.keys) :
                /\ RowRange.start <= build.keys[i]
                /\ build.keys[i] <= RowRange.end

\* C18: dataset_for_compression is called only in a build whose compression
\* is ZstdWithDictionary, and filter keys are read only in a build whose
\* configuration has filters.
C18_ReadsOnlyWhenConfigured ==
    /\ build.sample_calls > 0 => build.config.compression = "ZstdWithDictionary"
    /\ build.samples # <<>> => build.config.compression = "ZstdWithDictionary"
    /\ build.jar.dictionary => build.config.compression = "ZstdWithDictionary"
    /\ build.keys_read => has_filters(build.config.filters)

\* a Transactions build with LZ4 and filters has completed: keys read, no
\* sampling
C18_Witness ==
    /\ build.pc = "done"
    /\ build.result = Ok
    /\ build.segment = Transactions
    /\ build.config.compression = "Lz4"
    /\ build.keys_read
    /\ build.keys # <<>>
    /\ build.sample_calls = 0

\* C19: the header of the jar of a completed build has the requested block
\* range as its block range, and a tx range exactly for Transactions and
\* Receipts: the range the block range resolves to; the header of a Headers
\* build over [0, 999] has block range [0, 999] and no tx range.
C19_JarHeader ==
    (build.pc = "done" /\ build.result = Ok)
    => LET h == build.jar.header
           resolved == transaction_range_by_block_range(
                           db, [start |-> build.start, end |-> build.end])
       IN  /\ h.block_range = SegmentRangeInclusive(build.start, build.end)
           /\ h.segment = build.segment
           /\ h.tx_range.some <=> build.segment \in {Transactions, Receipts}
           /\ build.segment \in {Transactions, Receipts}
              => /\ resolved.result = Ok
                 /\ h.tx_range = SegmentRangeInclusive(resolved.range.start,
                                                       resolved.range.end)
           /\ (build.segment = Headers /\ build.start = 0 /\ build.end = 999)
              => /\ h.block_range = SegmentRangeInclusive(0, 999)
                 /\ h.tx_range = None

\* the Headers build over [0, 999] with the default configuration has
\* completed with its 1000 rows
C19_Witness ==
    /\ build.pc = "done"
    /\ build.result = Ok
    /\ build.segment = Headers
    /\ build.start = 0
    /\ build.end = 999
    /\ build.config = [compression |-> "Lz4",
                       filters |-> WithFilters("Cuckoo", "Fmph")]
    /\ Len(build.file) = 1000
    /\ Len(build.keys) = 1000

(***************************************************************************)
(* The producer runs copy_to_static_files of the three segments at the     *)
(* same time, each once, on one store snapshot; their steps interleave.    *)
(***************************************************************************)
\* the snapshots: the complete store, and the store without the block-body
\* index of block 1
ConcurrentStores ==
    {[headers |-> Blocks, tds |-> Blocks, canonical |-> Blocks,
      body_indices |-> ix, layout |-> Layout(TxCount),
      transactions |-> TxNumbers, receipts |-> TxNumbers] :
        ix \in {Blocks, Blocks \ {1}}}

InitConcurrent ==
    /\ header = IdleHeader
    /\ op = "new"
    /\ arg = -1
    /\ ret = -1
    /\ fname = <<>>
    /\ fsrc = NoSource
    /\ parsed = NoFile
    /\ fpc = "input"
    /\ debug_assertions \in BOOLEAN
    /\ db \in ConcurrentStores
    /\ active = StaticFileSegment
    /\ sfile = [s \in StaticFileSegment |-> NewFile(s, 0)]
    /\ run = [s \in StaticFileSegment |-> IdleRun]
    /\ prev = [s \in StaticFileSegment |-> IdleRun]
    /\ nruns = [s \in StaticFileSegment |-> 0]
    /\ JarIdle

\* the one call of a segment
StartOnce(segment) ==
    /\ nruns[segment] = 0
    /\ StartRun(segment)

NextConcurrent ==
    \/ \E segment \in StaticFileSegment : StartOnce(segment)
    \/ HeadersStep
    \/ HeadersReturn
    \/ \E segment \in StaticFileSegment : BlockStep(segment)
    \/ \E segment \in StaticFileSegment : RowStep(segment)
    \/ \E segment \in StaticFileSegment : BlockDone(segment)
    \/ \E segment \in StaticFileSegment : BlocksReturn(segment)

SpecConcurrent == InitConcurrent /\ [][NextConcurrent]_vars

\* one step of a call running on its own, on the file f of its segment: the
\* file and the call after it
StepAlone(segment, f, r, d, debug, outcome) ==
    IF segment = Headers
    THEN IF r.i <= Min3(Len(r.hw), Len(r.tw), Len(r.cw))
         THEN HeadersBody(f, r, debug, outcome)
         ELSE [file |-> f, run |-> EndRun(r, Ok)]
    ELSE IF r.pc = "loop"
    THEN IF r.block <= r.end
         THEN BlockHead(f, r, d, segment, debug, outcome)
         ELSE [file |-> f, run |-> EndRun(r, Ok)]
    ELSE IF r.pending = <<>>
    THEN [file |-> f, run |-> [r EXCEPT !.pc = "loop", !.block = @ + 1]]
    ELSE IF outcome = "ok"
    THEN [file |-> append_transaction(f, Head(r.pending)),
          run |-> [r EXCEPT !.pending = Tail(@)]]
    ELSE [file |-> f, run |-> EndRun(r, IoError)]

\* what a ? of a step can come to
Outcomes == {"ok", "read_err", "append_err", "increment_err"}

\* the states (file, call) of a call running on its own from the state x
RECURSIVE AloneStates(_, _, _, _)
AloneStates(segment, x, d, debug) ==
    IF x.run.pc = "done" THEN {x}
    ELSE LET next == {StepAlone(segment, x.file, x.run, d, debug, outcome) :
                         outcome \in Outcomes}
         IN  {x} \cup UNION {AloneStates(segment, y, d, debug) : y \in next}

\* the files before any call
FreshFiles == [s \in StaticFileSegment |-> NewFile(s, 0)]

\* the first block a call on a fresh file is given
FirstBlock == NextBlock(NewFile(Headers, 0).header)

\* the states of the call of each segment on blocks FirstBlock..e of the
\* store d, running on its own on a fresh file of the segment
AloneTable ==
    [segment \in StaticFileSegment, e \in Blocks, d \in ConcurrentStores, debug \in BOOLEAN |->
        AloneStates(segment,
                    [file |-> NewFile(segment, 0),
                     run |-> BeginRun(segment, FreshFiles, d, FirstBlock, e, TRUE)],
                    d, debug)]

\* the call of the segment is where the same call running on its own, on a
\* fresh file of the segment, can be
AsAlone(segment) ==
    LET e == run[segment].end
    IN  /\ run[segment].start = FirstBlock
        /\ \/ /\ run[segment] = BeginRun(segment, FreshFiles, db, FirstBlock, e, FALSE)
              /\ sfile[segment] = NewFile(segment, 0)
           \/ [file |-> sfile[segment], run |-> run[segment]] \in
                 AloneTable[segment, e, db, debug_assertions]

\* C20: with the three calls interleaved in any way, each segment's file
\* (header and rows) and call are at every moment, and so at the end, what
\* the call running on its own gives; a file is written only by a step of
\* the call of its segment, through the writer that call got at its start,
\* and no two calls hold the writer of the same file.
C20_ConcurrentAsSequential ==
    /\ [](\A segment \in StaticFileSegment :
            /\ run[segment].pc = "idle" => sfile[segment] = NewFile(segment, 0)
            /\ run[segment].pc # "idle" => AsAlone(segment))
    /\ [](\A s1, s2 \in StaticFileSegment :
            (/\ s1 # s2
             /\ run[s1].writer # NoWriter
             /\ run[s2].writer # NoWriter)
            => run[s1].writer # run[s2].writer)
    /\ [][\A x \in StaticFileSegment :
            sfile'[x] # sfile[x]
            => /\ run[x].writer = get_writer(run[x].start, x)
               /\ run'[x] # run[x]
               /\ run'[x].writer = run[x].writer
               /\ \A y \in StaticFileSegment \ {x} :
                     run'[y] = run[y] /\ sfile'[y] = sfile[y]]_vars

\* the Headers call and the Transactions call have each appended rows and
\* are not done, and the Receipts call has returned Ok
C20_Witness ==
    /\ run[Headers].pc = "loop"
    /\ Len(sfile[Headers].rows) >= 1
    /\ run[Transactions].pc = "rows"
    /\ Len(sfile[Transactions].rows) >= 1
    /\ run[Receipts].pc = "done"
    /\ run[Receipts].result = Ok
    /\ Len(sfile[Receipts].rows) >= 2

(***************************************************************************)
(* Failure of one of the concurrent calls.                                 *)
(***************************************************************************)
\* the call of the segment has ended with an error
Failed(r) == r.pc = "done" /\ r.result # Ok

\* the next step of the call of the segment
StepOf(segment) ==
    \/ segment = Headers /\ (HeadersStep \/ HeadersReturn)
    \/ BlockStep(segment)
    \/ RowStep(segment)
    \/ BlockDone(segment)
    \/ BlocksReturn(segment)

\* C21: the step in which the call of one segment ends with an error leaves
\* the files (committed ranges and rows) and the calls of the other two
\* segments as they were, and after it every other call that is under way
\* can take its next step and every other call not yet made can be made.
C21_FailureIsolation ==
    /\ [][\A x \in StaticFileSegment :
            (~Failed(run[x]) /\ Failed(run'[x]))
            => \A y \in StaticFileSegment \ {x} :
                  sfile'[y] = sfile[y] /\ run'[y] = run[y]]_vars
    /\ [](\A x \in StaticFileSegment :
            Failed(run[x])
            => \A y \in StaticFileSegment \ {x} :
                  /\ run[y].pc \in {"loop", "rows"} => ENABLED StepOf(y)
                  /\ run[y].pc = "idle" => ENABLED StartOnce(y))

\* the Transactions call has failed on the missing block-body index after
\* its first block, and the Headers and Receipts calls that were under way
\* then have since returned Ok, Headers with all its rows
C21_Witness ==
    /\ Failed(run[Transactions])
    /\ run[Transactions].result = BlockBodyIndicesNotFound(1)
    /\ run[Headers].pc = "done"
    /\ run[Headers].result = Ok
    /\ Len(sfile[Headers].rows) = run[Headers].end + 1
    /\ run[Headers].end >= 1
    /\ run[Receipts].pc = "done"
    /\ run[Receipts].result = Ok
    /\ run[Receipts].end = 0

(***************************************************************************)
(* The block counter during a copy_to_static_files call.                   *)
(***************************************************************************)
\* how far the call has advanced the block counter of its file
BlocksCounted(segment) ==
    block_len(sfile[segment].header) - range_length(run[segment].block_range0)

\* the rows the call has appended
RowsAppended(segment) == Len(sfile[segment].rows) - run[segment].rows0

\* C22: a step of a call advances the block counter by one or not at all.
\* In a Transactions or Receipts call it is advanced in the head of the loop
\* body and nowhere else, once for every block the loop has entered: the
\* counter stands at the number of blocks entered, and at the number of
\* blocks of the range when the call returns Ok.  In a Headers call it is
\* advanced by append_header together with the one row appended: counter and
\* rows appended stand at the number of loop bodies that appended.
C22_OncePerBlock ==
    /\ [][\A segment \in active :
            LET d == block_len(sfile'[segment].header) - block_len(sfile[segment].header)
                rows == Len(sfile'[segment].rows) - Len(sfile[segment].rows)
            IN  /\ d \in {0, 1}
                /\ segment = Headers =>
                      /\ rows = d
                      /\ d = 1 => /\ run[segment].pc = "loop"
                                  /\ \/ run'[segment].i = run[segment].i + 1
                                     \/ run'[segment].pc = "done"
                      /\ (run[segment].pc = "loop" /\ run'[segment].pc = "loop") => d = 1
                /\ segment # Headers =>
                      /\ d = 1 => /\ run[segment].pc = "loop"
                                  /\ run'[segment].pc \in {"rows", "done"}
                                  /\ run'[segment].block = run[segment].block
                      /\ (run[segment].pc = "loop" /\ run'[segment].pc = "rows") => d = 1]_vars
    /\ [](\A segment \in active :
            LET r == run[segment]
                n == BlocksCounted(segment)
            IN  /\ r.pc # "idle" /\ r.writer = NoWriter => n = 0
                /\ (segment = Headers /\ r.writer # NoWriter) =>
                      /\ n = RowsAppended(segment)
                      /\ r.pc = "loop" => n = r.i - 1
                      /\ (r.pc = "done" /\ r.result = Ok) =>
                             n = Min3(Len(r.hw), Len(r.tw), Len(r.cw))
                /\ (segment # Headers /\ r.writer # NoWriter) =>
                      /\ r.pc = "loop" => n = r.block - r.start
                      /\ r.pc = "rows" => n = r.block - r.start + 1
                      /\ (r.pc = "done" /\ r.result = Ok) => n = r.end - r.start + 1
                      /\ r.pc = "done" =>
                             n \in {r.block - r.start, r.block - r.start + 1})

\* a Transactions or Receipts call over at least two blocks has returned Ok
\* in a build without debug assertions
C22_Witness ==
    \E segment \in active \ {Headers} :
       /\ ~debug_assertions
       /\ run[segment].pc = "done"
       /\ run[segment].result = Ok
       /\ run[segment].end > run[segment].start
       /\ BlocksCounted(segment) = run[segment].end - run[segment].start + 1

(***************************************************************************)
(* Well-formedness of the ranges of a header.                              *)
(***************************************************************************)
WellFormed(range) == range.some => range.start <= range.end

\* C23: in every state reached from a header created with well-formed
\* ranges by increment_block, increment_tx and prune, a present block range
\* and a present tx range have start <= end, so that (end + 1) - start of
\* block_len and tx_len does not go below zero.
C23_RangesWellFormed ==
    /\ WellFormed(header.block_range)
    /\ WellFormed(header.tx_range)
    /\ block_len(header) >= 0
    /\ tx_len(header) >= 0

(***************************************************************************)
(* What Ok of Headers::copy_to_static_files stands for.                    *)
(***************************************************************************)
\* C24: when the Headers call over [start, end] has returned Ok it has
\* appended one row for every block of the range, whatever the three
\* tables hold; with a table short of the range it has not returned Ok.
C24_HeadersOkMeansWholeRange ==
    (/\ Headers \in active
     /\ run[Headers].pc = "done"
     /\ run[Headers].result = Ok)
    => /\ RowsAppended(Headers) = run[Headers].end - run[Headers].start + 1
       /\ \A b \in run[Headers].start..run[Headers].end :
             b \in db.headers /\ b \in db.tds /\ b \in db.canonical

(***************************************************************************)
(* A fresh header, no range committed, and any sequence of increment_block *)
(* and increment_tx on it, every call and what it returned kept in trail.  *)
(***************************************************************************)
InitCalls ==
    /\ \E seg \in StaticFileSegment, exp \in ExpectedRanges :
          header = SegmentHeader(exp, None, None, seg)
    /\ op = "new"
    /\ arg = -1
    /\ ret = -1
    /\ fname = <<>>
    /\ fsrc = NoSource
    /\ parsed = NoFile
    /\ fpc = "input"
    /\ CopyIdle
    /\ JarIdle

CallIncrementBlock ==
    /\ Len(trail) < MaxCalls
    /\ header' = increment_block(header).h
    /\ ret' = increment_block(header).ret
    /\ op' = "increment_block"
    /\ arg' = -1
    /\ trail' = Append(trail, [op |-> "increment_block", ret |-> increment_block(header).ret])
    /\ UNCHANGED <<fvars, cvars, bucket, sample, build>>

CallIncrementTx ==
    /\ Len(trail) < MaxCalls
    /\ header' = increment_tx(header)
    /\ ret' = -1
    /\ op' = "increment_tx"
    /\ arg' = -1
    /\ trail' = Append(trail, [op |-> "increment_tx", ret |-> -1])
    /\ UNCHANGED <<fvars, cvars, bucket, sample, build>>

NextCalls == CallIncrementBlock \/ CallIncrementTx

SpecCalls == InitCalls /\ [][NextCalls]_vars

\* the calls of the method in the trail, in their order
CallsOf(method) == SelectSeq(trail, LAMBDA c : c.op = method)

\* C25: on a header made with no committed block range, after k >= 1 calls
\* of increment_block the committed block range is
\* [expected_start, expected_start + k - 1], block_len is k and the i-th
\* call returned expected_start + i - 1; on a Transactions or Receipts
\* header made with no tx range, after k >= 1 calls of increment_tx tx_len
\* is k.
C25_CountedIncrements ==
    LET blocks == CallsOf("increment_block")
        txs == CallsOf("increment_tx")
        k == Len(blocks)
    IN  /\ k >= 1 =>
              /\ header.block_range =
                    SegmentRangeInclusive(expected_block_start(header),
                                          expected_block_start(header) + k - 1)
              /\ block_len(header) = k
              /\ \A i \in 1..k : blocks[i].ret = expected_block_start(header) + i - 1
        /\ (Len(txs) >= 1 /\ header.segment \in {Transactions, Receipts}) =>
              tx_len(header) = Len(txs)

\* three calls of increment_block and two of increment_tx, interleaved, on a
\* Receipts header of a bucket that does not start at block 0
C25_Witness ==
    /\ header.segment = Receipts
    /\ expected_block_start(header) > 0
    /\ Len(CallsOf("increment_block")) = 3
    /\ Len(CallsOf("increment_tx")) = 2
    /\ trail[1].op = "increment_tx"
    /\ trail[Len(trail)].op = "increment_tx"
    /\ block_len(header) = 3
    /\ tx_len(header) = 2

(***************************************************************************)
(* What the header operations leave alone.                                 *)
(***************************************************************************)
\* C26: increment_block leaves the tx range as it was and increment_tx the
\* block range; prune on a Headers header changes nothing but the block
\* range, and on a Transactions or Receipts header nothing but the tx range.
\* None of them touches the segment or the expected block range.
C26_Frame ==
    [][/\ header'.segment = header.segment
       /\ header'.expected_block_range = header.expected_block_range
       /\ op' = "increment_block" => header'.tx_range = header.tx_range
       /\ op' = "increment_tx" => header'.block_range = header.block_range
       /\ (op' = "prune" /\ header.segment = Headers) =>
              header'.tx_range = header.tx_range
       /\ (op' = "prune" /\ header.segment \in {Transactions, Receipts}) =>
              header'.block_range = header.block_range]_vars

\* prune has cut the tx range of a Transactions header whose block range,
\* two blocks or more, it could have cut as well
C26_Witness ==
    /\ op = "prune"
    /\ arg >= 1
    /\ header.segment = Transactions
    /\ header.block_range.some
    /\ header.block_range.end >= arg
    /\ header.block_range.end > header.block_range.start
    /\ header.tx_range = SegmentRangeInclusive(0, 0)

(***************************************************************************)
(* The bucket that names the file of a build.                              *)
(***************************************************************************)
\* C27: once prepare_jar has made the jar of a build over [start, end], the
\* bucket find_fixed_range(end), whose range names the file, holds the whole
\* of [start, end], and the expected block range of the jar's header is the
\* range of that bucket.
C27_FileBucket ==
    build.jar # NoJar
    => LET named == find_fixed_range(build.end)
       IN  /\ named.start <= build.start
           /\ build.end <= named.end
           /\ build.jar.header.expected_block_range = named

(***************************************************************************)
(* File names with a configuration:                                        *)
(* StaticFileSegment::filename_with_configuration, then parse_filename.    *)
(***************************************************************************)
\* AsRefStr of InclusionFilter, PerfectHashingFunction and Compression
inclusion_filter_as_ref(inclusion_filter) ==
    CASE inclusion_filter = "Cuckoo" -> <<"c", "u", "c", "k", "o", "o">>

phf_as_ref(phf) ==
    CASE phf = "Fmph" -> <<"f", "m", "p", "h">>
      [] phf = "GoFmph" -> <<"g", "o", "f", "m", "p", "h">>

compression_as_ref(compression) ==
    CASE compression = "Lz4" -> <<"l", "z", "4">>
      [] compression = "Zstd" -> <<"z", "s", "t", "d">>
      [] compression = "ZstdWithDictionary" ->
            <<"z", "s", "t", "d", "-", "d", "i", "c", "t">>
      [] compression = "Uncompressed" ->
            <<"u", "n", "c", "o", "m", "p", "r", "e", "s", "s", "e", "d">>

\* filename_with_configuration(&self, filters, compression, block_range):
\* format!("{prefix}_{}_{}", filters_name, compression.as_ref())
filename_with_configuration(segment, filters, compression, block_range) ==
    LET prefix == filename(segment, block_range)
        filters_name ==
            IF filters.has
            THEN inclusion_filter_as_ref(filters.inclusion_filter) \o <<"-">>
                 \o phf_as_ref(filters.phf)
            ELSE <<"n", "o", "n", "e">>
    IN  prefix \o <<"_">> \o filters_name \o <<"_">> \o compression_as_ref(compression)

\* the inputs: a segment, a range, filters and a compression
ConfiguredInputs ==
    {[kind |-> "configured", segment |-> segment, start |-> s, end |-> e,
      tokens |-> <<>>, filters |-> filters, compression |-> compression] :
        segment \in StaticFileSegment, s \in 0..MaxNameBlock, e \in 0..MaxNameBlock,
        filters \in Filters, compression \in Compression}

InitConfigured ==
    /\ header = IdleHeader
    /\ op = "new"
    /\ arg = -1
    /\ ret = -1
    /\ fsrc \in ConfiguredInputs
    /\ fname = <<>>
    /\ parsed = NoFile
    /\ fpc = "input"
    /\ CopyIdle
    /\ JarIdle

\* segment.filename_with_configuration(filters, compression, &[start, end])
GenerateConfiguredName ==
    /\ fpc = "input"
    /\ fsrc.kind = "configured"
    /\ fname' = filename_with_configuration(
                    fsrc.segment, fsrc.filters, fsrc.compression,
                    SegmentRangeInclusive(fsrc.start, fsrc.end))
    /\ fpc' = "named"
    /\ UNCHANGED <<hvars, cvars, jvars, fsrc, parsed>>

NextConfigured == GenerateConfiguredName \/ ParseName

SpecConfigured == InitConfigured /\ [][NextConfigured]_vars

\* C28: for every segment S, range [s,e] with s <= e, filters and
\* compression, parse_filename of
\* S.filename_with_configuration(filters, compression, [s,e]) is (S, [s,e]).
C28_ConfiguredRoundTrip ==
    (fpc = "parsed" /\ fsrc.kind = "configured" /\ fsrc.start <= fsrc.end)
    => parsed = SomeFile(fsrc.segment,
                         SegmentRangeInclusive(fsrc.start, fsrc.end))

\* the name of a Transactions file with filters and dictionary compression,
\* static_file_transactions_9_10_cuckoo-gofmph_zstd-dict, has been parsed
C28_Witness ==
    /\ fpc = "parsed"
    /\ fsrc.kind = "configured"
    /\ fsrc.segment = Transactions
    /\ fsrc.start = 9
    /\ fsrc.end = 10
    /\ fsrc.filters = WithFilters("Cuckoo", "GoFmph")
    /\ fsrc.compression = "ZstdWithDictionary"
    /\ Len(split(fname)) = 7
    /\ parsed.some

(***************************************************************************)
(* The keys of a dictionary sample.                                        *)
(***************************************************************************)
\* C29: every row that dataset_for_compression(range, range_len) has
\* returned to a build has its key inside the range given, also when the
\* table holds fewer rows inside the range than range_len.
C29_SampleInsideRange ==
    \A c \in 1..Len(build.samples) :
       \A i \in 1..Len(build.samples[c]) :
          /\ RowRange.start <= build.samples[c][i]
          /\ build.samples[c][i] <= RowRange.end

====
